---- MODULE Spec2Model ----
(***************************************************************************)
(* Web-analytics ingestion of shotlin_backend:                             *)
(*   src/src/modules/analytics/analytics.controller.ts                     *)
(* collectHandler and heartbeatHandler run as concurrent requests against  *)
(* the store (AnalyticsSession and PageView tables).  Every await of a     *)
(* handler is a suspension point, so each store round trip is one step.    *)
(*                                                                         *)
(* Time is counted in minutes; the code counts milliseconds and its 30     *)
(* minute window is 30 * 60 * 1000 ms.  Session ids and page view ids are  *)
(* the positions of the rows in the tables (rows are never deleted).       *)
(* A store round trip is far shorter than a minute, so the clock steps     *)
(* only while no store call is outstanding; the geo fetch has no timeout   *)
(* and may span any number of minutes.                                     *)
(*                                                                         *)
(* The time-series, top-pages, referrers and realtime views await one      *)
(* read of the store and are one step each; the                            *)
(* realtime view, whose window is 5 * 60 * 1000 ms, is modelled with the   *)
(* clock counting seconds.                                                 *)
(***************************************************************************)
EXTENDS Integers, Sequences, FiniteSets, TLC

\* ---------------------------------------------------------------- bounds
MaxCalls == 2       \* requests received in one behaviour
MaxFailures == 1    \* store calls that throw in one behaviour
MaxTime == 31       \* the clock stops here
MaxCount == 100     \* largest figure given to the percentage change
MaxElapse == 2      \* the finely read clock stops here

Procs == {1, 2}     \* request slots: requests in progress at one time
Visitors == {1, 2}
Paths == {"/a", "/b"}
Depths == {5, 40}
Ips == {"127.0.0.1", "8.8.8.8"}
TickSteps == {30, 31}

\* ------------------------------------------------------ program constants
SessionTimeout == 30
SecondsPerMinute == 60
DefaultPageViewCount == 1
DefaultBounced == TRUE
DefaultDuration == 0

NoId == 0          \* sessionId absent (undefined or "") in a request body
NoVisitor == 0     \* visitorId absent (undefined or "") in a request body
NoSession == 0     \* findFirst / findUnique returned null
NoView == 0        \* pageView.findFirst returned null
NoPath == ""       \* heartbeat path absent (undefined or "")
NoDepth == -1      \* scrollDepth undefined in a body, null in a row
NoTime == -1       \* timeOnPage null in a row

\* A string the code looks into (a host name, a UTM source) is held as the
\* sequence of its characters; the empty sequence is the absent value
\* (undefined, null or ""), which the code tests with if (x) / if (!x).
NoDomain == <<>>
NoUtm == <<>>
NoDevice == ""

\* b.referrer by what new URL(referrer) makes of it: absent, rejected
\* (new URL throws), or a URL with a host name
NoReferrer == [kind |-> "none", hostname |-> <<>>]
BadReferrer == [kind |-> "malformed", hostname |-> <<>>]
Url(hostname) == [kind |-> "url", hostname |-> hostname]

\* the optional metadata of a collect body that the model carries
NoMeta == [referrer |-> NoReferrer, utmSource |-> NoUtm,
           deviceType |-> NoDevice]

\* the metadata sent with the enumerated page views: /a is reached from a
\* search result on a desktop, /b from a paid social campaign on a phone
MetaSent(path) ==
    CASE path = "/a" ->
           [referrer |-> Url(<<"w", "w", "w", ".", "g", "o", "o", "g", "l",
                               "e", ".", "c", "o", "m">>),
            utmSource |-> NoUtm, deviceType |-> "desktop"]
      [] path = "/b" ->
           [referrer |-> NoReferrer,
            utmSource |-> <<"f", "a", "c", "e", "b", "o", "o", "k", "_",
                            "a", "d", "s">>,
            deviceType |-> "mobile"]
      [] OTHER -> NoMeta

\* heartbeat bodies: <<scrollDepth, path>>, either of them optional
HeartbeatBodies ==
    (Depths \X Paths) \cup {<<NoDepth, NoPath>>, <<5, NoPath>>, <<NoDepth, "/a">>}

\* scroll depths outside the range the route accepts, and bodies with them
BadDepths == {-5, 101}
BadHeartbeatBodies == (BadDepths \X {"/a"}) \cup {<<101, NoPath>>}

\* ------------------------------------------------------- route validation
MinScrollDepth == 0
MaxScrollDepth == 100

\* body schema of POST /collect: visitorId and path are z.string().min(1),
\* every other field is optional
CollectSchema(b) ==
    /\ b.visitorId # NoVisitor
    /\ b.path # NoPath

HeartbeatSchemaAnyDepth(b) == b.sessionId # NoId

\* body schema of POST /heartbeat: sessionId is z.string().min(1),
\* scrollDepth is z.number().min(0).max(100).optional(), path is optional
HeartbeatSchema(b) ==
    /\ b.sessionId # NoId
    /\ \/ b.scrollDepth = NoDepth
       \/ /\ b.scrollDepth >= MinScrollDepth
          /\ b.scrollDepth <= MaxScrollDepth

VARIABLES
    now,         \* the clock (Date.now()), in minutes
    sessions,    \* AnalyticsSession table: sequence of rows, id = position
    pageViews,   \* PageView table: sequence of rows in insertion order
    pc,          \* per request slot: position in the handler
    req,         \* per request slot: the request body (and client ip)
    loc,         \* per request slot: the handler's local variables
    obs,         \* per request slot: what the call saw and wrote (history)
    last,        \* the call that replied in the latest step, and its reply
    hist,        \* per session / page view history used by the properties
    started,     \* number of calls started and failures injected
    agg          \* the dashboard (aggregation) request and what it has read

vars == <<now, sessions, pageViews, pc, req, loc, obs, last, hist, started,
          agg>>

SessionIds == 1..Len(sessions)
ViewIds == 1..Len(pageViews)

Max(a, b) == IF a >= b THEN a ELSE b

\* ------------------------------------------------------------ geo lookup
GeoLocal == "Local"
GeoEmpty == "none"
GeoFound == "US"
GeoMistyped == "mistyped"

IsLocalIp(ip) == ip = "127.0.0.1"

\* the results geoLookup(ip) can resolve to: the fixed local result; {} when
\* fetch or res.json() throws or the response is not ok; the fields of the
\* payload otherwise.  The casts of lines 43-49 (as string, as number) verify
\* nothing at run time, so a payload whose fields are not of the declared
\* types is passed on as it is.
geoLookup(ip) ==
    IF IsLocalIp(ip) THEN {GeoLocal} ELSE {GeoEmpty, GeoFound, GeoMistyped}

\* analyticsSession.create validates its data against the column types
\* (strings for the places, numbers for latitude and longitude) and throws
\* on a value of another type
SessionRowAccepted(row) == row.geo # GeoMistyped

\* ------------------------------------------------------- referrer domain
WwwPrefix == <<"w", "w", "w", ".">>

\* hostname.replace(/^www\./, "")
StripWww(hostname) ==
    IF Len(hostname) >= Len(WwwPrefix)
       /\ SubSeq(hostname, 1, Len(WwwPrefix)) = WwwPrefix
    THEN SubSeq(hostname, Len(WwwPrefix) + 1, Len(hostname))
    ELSE hostname

\* lines 5-12: null for an absent referrer and for one new URL rejects
extractReferrerDomain(referrer) ==
    IF referrer.kind # "url" THEN NoDomain ELSE StripWww(referrer.hostname)

\* -------------------------------------------------------- traffic source
UpperLetters ==
    <<"A", "B", "C", "D", "E", "F", "G", "H", "I", "J", "K", "L", "M", "N",
      "O", "P", "Q", "R", "S", "T", "U", "V", "W", "X", "Y", "Z">>
LowerLetters ==
    <<"a", "b", "c", "d", "e", "f", "g", "h", "i", "j", "k", "l", "m", "n",
      "o", "p", "q", "r", "s", "t", "u", "v", "w", "x", "y", "z">>

\* String.prototype.toLowerCase
toLowerCase(str) ==
    [i \in 1..Len(str) |->
        IF \E k \in 1..Len(UpperLetters) : UpperLetters[k] = str[i]
        THEN LowerLetters[CHOOSE k \in 1..Len(UpperLetters) :
                              UpperLetters[k] = str[i]]
        ELSE str[i]]

\* String.prototype.includes: part occurs in str
Includes(str, part) ==
    \E i \in 0..(Len(str) - Len(part)) :
        SubSeq(str, i + 1, i + Len(part)) = part

\* the lists of lines 17, 18, 25 and 26
SearchSources ==
    {<<"g", "o", "o", "g", "l", "e">>,
     <<"b", "i", "n", "g">>,
     <<"d", "u", "c", "k", "d", "u", "c", "k", "g", "o">>,
     <<"y", "a", "h", "o", "o">>,
     <<"b", "a", "i", "d", "u">>}

SocialSources ==
    {<<"f", "a", "c", "e", "b", "o", "o", "k">>,
     <<"i", "n", "s", "t", "a", "g", "r", "a", "m">>,
     <<"l", "i", "n", "k", "e", "d", "i", "n">>,
     <<"t", "w", "i", "t", "t", "e", "r">>,
     <<"t", "i", "k", "t", "o", "k">>,
     <<"r", "e", "d", "d", "i", "t">>,
     <<"x">>}

SearchDomains ==
    {<<"g", "o", "o", "g", "l", "e", ".", "c", "o", "m">>,
     <<"b", "i", "n", "g", ".", "c", "o", "m">>,
     <<"d", "u", "c", "k", "d", "u", "c", "k", "g", "o", ".", "c", "o",
     "m">>,
     <<"y", "a", "h", "o", "o", ".", "c", "o", "m">>,
     <<"b", "a", "i", "d", "u", ".", "c", "o", "m">>,
     <<"y", "a", "n", "d", "e", "x", ".", "c", "o", "m">>}

SocialDomains ==
    {<<"f", "a", "c", "e", "b", "o", "o", "k", ".", "c", "o", "m">>,
     <<"i", "n", "s", "t", "a", "g", "r", "a", "m", ".", "c", "o", "m">>,
     <<"l", "i", "n", "k", "e", "d", "i", "n", ".", "c", "o", "m">>,
     <<"t", "w", "i", "t", "t", "e", "r", ".", "c", "o", "m">>,
     <<"x", ".", "c", "o", "m">>,
     <<"t", "i", "k", "t", "o", "k", ".", "c", "o", "m">>,
     <<"r", "e", "d", "d", "i", "t", ".", "c", "o", "m">>,
     <<"t", ".", "c", "o">>}

EmailMarks ==
    {<<"e", "m", "a", "i", "l">>,
     <<"n", "e", "w", "s", "l", "e", "t", "t", "e", "r">>}

PaidMarks ==
    {<<"c", "p", "c">>,
     <<"a", "d", "s">>,
     <<"p", "a", "i", "d">>}

Categories == {"Organic Search", "Social Media", "Email", "Paid Ads",
               "Campaign", "Direct", "Referral"}

\* [..].includes(s) of lines 17 and 18: s is one of the entries of the list
IsListed(s, list) == s \in list

categorizeWithoutDirect(referrerDomain, utmSource) ==
    IF utmSource # NoUtm THEN "Campaign" ELSE "Referral"

\* lines 14-28
categorizeTrafficSource(referrerDomain, utmSource) ==
    IF utmSource # NoUtm
    THEN LET s == toLowerCase(utmSource)
         IN IF IsListed(s, SearchSources) THEN "Organic Search"
            ELSE IF IsListed(s, SocialSources) THEN "Social Media"
            ELSE IF \E m \in EmailMarks : Includes(s, m) THEN "Email"
            ELSE IF \E m \in PaidMarks : Includes(s, m) THEN "Paid Ads"
            ELSE "Campaign"
    ELSE IF referrerDomain = NoDomain THEN "Direct"
    ELSE LET d == toLowerCase(referrerDomain)
         IN IF \E x \in SearchDomains : Includes(d, x) THEN "Organic Search"
            ELSE IF \E x \in SocialDomains : Includes(d, x)
                 THEN "Social Media"
            ELSE "Referral"

\* ------------------------------------------------------- session stitcher
IsOpenStrict(row, visitorId, t) ==
    /\ row.visitorId = visitorId
    /\ row.lastActiveAt > t - SessionTimeout

IsOpenAnyAge(row, visitorId, t) ==
    row.visitorId = visitorId

\* where-clause of analyticsSession.findFirst in collectHandler
IsOpen(row, visitorId, t) ==
    /\ row.visitorId = visitorId
    /\ row.lastActiveAt >= t - SessionTimeout

\* let session = null; if (b.sessionId) session = findFirst(...)
FindOpenSession(sid, visitorId, t) ==
    IF sid # NoId /\ sid \in SessionIds /\ IsOpen(sessions[sid], visitorId, t)
    THEN sid ELSE NoSession

\* pageViewCount: { increment: 1 } is applied by the store to the stored
\* value cur; seen is the value the row had when the handler looked it up
WriteBackCount(cur, seen) == seen + 1

IncrementedCount(cur, seen) == cur + 1

CollectUpdateRowStillBounced(row, path, t, seen) ==
    [row EXCEPT !.lastActiveAt = t,
                !.exitPage = path,
                !.pageViewCount = IncrementedCount(row.pageViewCount, seen)]

CollectUpdateRowRegeo(row, path, t, seen) ==
    [row EXCEPT !.lastActiveAt = t,
                !.exitPage = path,
                !.pageViewCount = IncrementedCount(row.pageViewCount, seen),
                !.bounced = FALSE,
                !.geo = GeoLocal]

\* data of analyticsSession.update in collectHandler
CollectUpdateRow(row, path, t, seen) ==
    [row EXCEPT !.lastActiveAt = t,
                !.exitPage = path,
                !.pageViewCount = IncrementedCount(row.pageViewCount, seen),
                !.bounced = FALSE]

\* data of analyticsSession.create in collectHandler plus column defaults
NewSessionRow(visitorId, path, meta, geo, t) ==
    [visitorId |-> visitorId, entryPage |-> path, exitPage |-> path,
     referrer |-> meta.referrer,
     referrerDomain |-> extractReferrerDomain(meta.referrer),
     utmSource |-> meta.utmSource, deviceType |-> meta.deviceType,
     startedAt |-> t, lastActiveAt |-> t, duration |-> DefaultDuration,
     pageViewCount |-> DefaultPageViewCount, bounced |-> DefaultBounced,
     geo |-> geo]

CreateSessionUnique(rows, row) ==
    IF \E s \in 1..Len(rows) :
          IsOpen(rows[s], row.visitorId, row.lastActiveAt)
    THEN rows ELSE Append(rows, row)

\* analyticsSession.create: the store adds the row; no uniqueness
\* constraint relates it to the visitor's other sessions
CreateSession(rows, row) == Append(rows, row)

OkReplyNoId(sid) == [status |-> "ok", sessionId |-> NoId]

\* reply.send({ status: "ok", sessionId }) of collectHandler
OkReply(sid) == [status |-> "ok", sessionId |-> sid]

NewPageViewRowUnowned(sid, path, t) ==
    [sessionId |-> NoSession, path |-> path, timestamp |-> t,
     scrollDepth |-> NoDepth, timeOnPage |-> NoTime]

\* data of pageView.create in collectHandler plus column defaults
NewPageViewRow(sid, path, t) ==
    [sessionId |-> sid, path |-> path, timestamp |-> t,
     scrollDepth |-> NoDepth, timeOnPage |-> NoTime]

\* -------------------------------------------------------------- heartbeat
MissingSessionCrash == "error"

\* if (!session) return reply.code(404).send({ status: "not_found" })
MissingSessionStatus == "not_found"

\* analyticsSession.findUnique({where: {id}}) in heartbeatHandler
FindSession(sid) == IF sid \in SessionIds THEN sid ELSE NoSession

DurationMinutes(t, startedAt) == t - startedAt

\* Math.floor((Date.now() - startedAt.getTime()) / 1000)
DurationSeconds(t, startedAt) == (t - startedAt) * SecondsPerMinute

HeartbeatUpdateRowKeepsActiveAt(row, t, startedAt) ==
    [row EXCEPT !.duration = DurationSeconds(t, startedAt)]

HeartbeatUpdateRowUnbounces(row, t, startedAt) ==
    [row EXCEPT !.lastActiveAt = t,
                !.duration = DurationSeconds(t, startedAt),
                !.bounced = FALSE]

\* data of analyticsSession.update in heartbeatHandler (line 188); t is the
\* clock as the handler read it, startedAt the value its lookup returned
HeartbeatUpdateRow(row, t, startedAt) ==
    [row EXCEPT !.lastActiveAt = t,
                !.duration = DurationSeconds(t, startedAt)]

\* rows pageView.findFirst({where: {sessionId, path}, orderBy: timestamp
\* desc}) can return: a row of the greatest timestamp (ties are unordered)
LatestViews(sid, path) ==
    LET match == {v \in ViewIds : /\ pageViews[v].sessionId = sid
                                  /\ pageViews[v].path = path}
    IN {v \in match : \A w \in match :
                          pageViews[w].timestamp <= pageViews[v].timestamp}

\* latestView.scrollDepth || 0
StoredDepth(d) == IF d = NoDepth THEN 0 ELSE d

LastDepth(incoming, stored) == incoming

\* Math.max(scrollDepth, latestView.scrollDepth || 0)
RatchetDepth(incoming, stored) == Max(incoming, StoredDepth(stored))

MissingViewInserted(views, sid, path, t) ==
    Append(views, NewPageViewRow(sid, path, t))

\* if (latestView) { ... } has no else: without a view of the path the
\* PageView table is left as it is
MissingViewRows(views, sid, path, t) == views

\* ----------------------------------------------------------------- state
IdleReq == [kind |-> "none", visitorId |-> NoVisitor, sessionId |-> NoId,
            path |-> NoPath, scrollDepth |-> NoDepth, meta |-> NoMeta]

IdleLoc == [session |-> NoSession, newSession |-> NoSession,
            geo |-> GeoEmpty, startedAt |-> 0,
            latestView |-> NoView, latestDepth |-> NoDepth, latestTs |-> 0]

\* history of one call: arrival time, the row its lookup addressed as it
\* was at that moment, and the writes it has performed
IdleObs == [arrivedAt |-> 0, seenExists |-> FALSE, seenVisitor |-> 0,
            seenActiveAt |-> 0, seenCount |-> 0, rowsAtArrival |-> 0,
            wroteCount |-> 0, sessWrites |-> <<>>, viewInserts |-> <<>>,
            failed |-> FALSE]

NoCall == [req |-> IdleReq, status |-> "none", sessionId |-> NoId,
           obs |-> IdleObs]

\* no dashboard request has been made
IdleAgg == [pc |-> "idle"]

\* The store is durable: the server starts on an empty store or on the
\* store that one earlier collect call (lines 129-158) and one heartbeat
\* with a scroll depth (lines 184-204), both at time 0, have left behind.
SeedVisitor == 1
SeedPath == "/a"
SeedDepth == 10

Init ==
    /\ now = 0
    /\ \/ /\ sessions = <<>>
          /\ pageViews = <<>>
          /\ hist = [sess |-> <<>>, view |-> <<>>]
       \/ /\ sessions = <<NewSessionRow(SeedVisitor, SeedPath, MetaSent(SeedPath),
                                         GeoLocal, 0)>>
          /\ pageViews = <<[NewPageViewRow(1, SeedPath, 0) EXCEPT
                              !.scrollDepth = RatchetDepth(SeedDepth, NoDepth),
                              !.timeOnPage = DurationSeconds(0, 0)]>>
          /\ hist = [sess |-> <<[chainCalls |-> 1, chainAt |-> 0,
                                 chainBroken |-> FALSE, closed |-> FALSE,
                                 updates |-> 0, bornSeeing |-> 0,
                           beatAt |-> NoTime]>>,
                     view |-> <<[fed |-> SeedDepth, feeds |-> 1,
                                 clean |-> TRUE]>>]
    /\ pc = [p \in Procs |-> "idle"]
    /\ req = [p \in Procs |-> IdleReq]
    /\ loc = [p \in Procs |-> IdleLoc]
    /\ obs = [p \in Procs |-> IdleObs]
    /\ last = NoCall
    /\ started = [calls |-> 0, failures |-> 0]
    /\ agg = IdleAgg

\* the session a collect call is working on, once it has one
Target(p) ==
    IF loc[p].session # NoSession THEN loc[p].session ELSE loc[p].newSession

\* a collect call is in progress on session s
CollectInFlightOn(p, s) ==
    /\ pc[p] # "idle"
    /\ req[p].kind = "collect"
    /\ Target(p) = s

\* a request that names or holds session s is in progress
InFlightOn(p, s) ==
    /\ pc[p] # "idle"
    /\ (req[p].sessionId = s \/ Target(p) = s)

\* a request is served by the first free slot
FreeSlot(p) ==
    /\ pc[p] = "idle"
    /\ \A q \in Procs : q < p => pc[q] # "idle"

\* the server takes a request while the bound on requests is not reached
Accepting(p) ==
    /\ FreeSlot(p)
    /\ started.calls < MaxCalls

\* The handler reads the clock (new Date(), Date.now()) while it builds the
\* data of an update, which is when its lookup has answered; the store
\* applies the update in a later step.
CalledAt(p) == obs[p].arrivedAt

\* reply.send / reply.code(..).send: the request r ends and frees its slot
Reply(p, r, answer, o) ==
    /\ last' = [req |-> r, status |-> answer.status,
                sessionId |-> answer.sessionId, obs |-> o]
    /\ pc' = [pc EXCEPT ![p] = "idle"]
    /\ req' = [req EXCEPT ![p] = IdleReq]
    /\ loc' = [loc EXCEPT ![p] = IdleLoc]
    /\ obs' = [obs EXCEPT ![p] = IdleObs]

\* reply.code(500).send({ status: "error" }), and the replies of
\* heartbeatHandler, which carry no session id
Answer(status) == [status |-> status, sessionId |-> NoId]

\* the request goes on to its next store call; the step sends no reply
Goto(p, label) ==
    /\ pc' = [pc EXCEPT ![p] = label]
    /\ last' = NoCall

\* history: the heartbeat in slot p ends ok now
Beat(h, p) == [h EXCEPT !.sess[req[p].sessionId].beatAt = now]

\* the validator compiled from the route's body schema refuses the body:
\* the framework answers 400 and the handler is not called
Rejected(p, r) ==
    /\ Accepting(p)
    /\ Reply(p, r, Answer("invalid"), IdleObs)
    /\ started' = [started EXCEPT !.calls = @ + 1]
    /\ UNCHANGED <<now, sessions, pageViews, hist>>
    /\ UNCHANGED agg

\* ---------------------------------------------------------------- collect
\* lines 80-95: the body has passed the route's schema, the request arrives
\* and the open session is looked up.
\* ok = FALSE: the lookup throws and the catch block answers 500.
CollectStart(p, visitorId, sid, path, meta, ok) ==
    /\ Accepting(p)
    /\ CollectSchema([visitorId |-> visitorId, path |-> path])
    /\ ok \/ (sid # NoId /\ started.failures < MaxFailures)
    /\ LET found == FindOpenSession(sid, visitorId, now)
           exists == sid \in SessionIds
           sameVisitor == exists /\ sessions[sid].visitorId = visitorId
           overlap == \E q \in Procs \ {p} : CollectInFlightOn(q, sid)
           inChain == /\ ~overlap
                      /\ now - hist.sess[sid].chainAt <= SessionTimeout
           r == [kind |-> "collect", visitorId |-> visitorId,
                 sessionId |-> sid, path |-> path, scrollDepth |-> NoDepth,
                 meta |-> meta]
           o == [IdleObs EXCEPT
                   !.arrivedAt = now,
                   !.seenExists = exists,
                   !.seenVisitor =
                       IF exists THEN sessions[sid].visitorId ELSE 0,
                   !.seenActiveAt =
                       IF exists THEN sessions[sid].lastActiveAt ELSE 0,
                   !.seenCount =
                       IF exists THEN sessions[sid].pageViewCount ELSE 0,
                   !.rowsAtArrival = Len(sessions),
                   !.failed = ~ok]
       IN /\ hist' = IF ok /\ sameVisitor
                     THEN [hist EXCEPT !.sess[sid] =
                             IF inChain
                             THEN [@ EXCEPT !.chainCalls = @ + 1,
                                            !.chainAt = now]
                             ELSE [@ EXCEPT !.chainBroken = TRUE]]
                     ELSE hist
          /\ IF ~ok THEN Reply(p, r, Answer("error"), o)
             ELSE /\ req' = [req EXCEPT ![p] = r]
                  /\ loc' = [loc EXCEPT ![p] =
                                [IdleLoc EXCEPT !.session = found]]
                  /\ obs' = [obs EXCEPT ![p] = o]
                  /\ Goto(p, IF found # NoSession THEN "c_update"
                                                  ELSE "c_geo")
    /\ started' = [started EXCEPT
                      !.calls = @ + 1,
                      !.failures = IF ok THEN @ ELSE @ + 1]
    /\ UNCHANGED <<now, sessions, pageViews>>
    /\ UNCHANGED agg

\* POST /collect with a body the schema refuses
CollectRejected(p, visitorId, sid, path) ==
    LET r == [kind |-> "collect", visitorId |-> visitorId,
              sessionId |-> sid, path |-> path, scrollDepth |-> NoDepth,
              meta |-> MetaSent(path)]
    IN ~CollectSchema(r) /\ Rejected(p, r)

\* lines 98-107: analyticsSession.update of the existing session
CollectUpdate(p) ==
    /\ pc[p] = "c_update"
    /\ LET s == loc[p].session
       IN /\ sessions' = [sessions EXCEPT ![s] =
                CollectUpdateRow(@, req[p].path, CalledAt(p),
                                 obs[p].seenCount)]
          /\ obs' = [obs EXCEPT
                        ![p].sessWrites = Append(@, [op |-> "update", id |-> s]),
                        ![p].wroteCount = sessions'[s].pageViewCount]
          /\ hist' = [hist EXCEPT !.sess[s].updates = @ + 1]
    /\ Goto(p, "c_view")
    /\ UNCHANGED <<now, pageViews, req, loc, started>>
    /\ UNCHANGED agg

\* lines 110-119: pageView.create for the existing session, then the reply
CollectView(p) ==
    /\ pc[p] = "c_view"
    /\ LET s == loc[p].session
       IN /\ pageViews' = Append(pageViews,
                                 NewPageViewRow(s, req[p].path, now))
          /\ Reply(p, req[p], OkReply(s),
                   [obs[p] EXCEPT !.viewInserts =
                                      Append(@, Len(pageViews) + 1)])
    /\ hist' = [hist EXCEPT !.view =
                   Append(@, [fed |-> 0, feeds |-> 0, clean |-> TRUE])]
    /\ UNCHANGED <<now, sessions, started>>
    /\ UNCHANGED agg

\* lines 122-127: client ip, geoLookup, extractReferrerDomain
CollectGeo(p, ip) ==
    /\ pc[p] = "c_geo"
    /\ \E g \in geoLookup(ip) :
          loc' = [loc EXCEPT ![p].geo = g]
    /\ Goto(p, "c_create")
    /\ UNCHANGED <<now, sessions, pageViews, req, obs, hist, started>>
    /\ UNCHANGED agg

\* lines 129-149: analyticsSession.create
CollectCreate(p) ==
    /\ pc[p] = "c_create"
    /\ LET s == Len(sessions) + 1
           row == NewSessionRow(req[p].visitorId, req[p].path, req[p].meta,
                                loc[p].geo, now)
       IN IF SessionRowAccepted(row)
          THEN /\ sessions' = CreateSession(sessions, row)
               /\ loc' = [loc EXCEPT ![p].newSession = s]
               /\ obs' = [obs EXCEPT ![p].sessWrites =
                             Append(@, [op |-> "create", id |-> s])]
               /\ hist' = [hist EXCEPT !.sess =
                             Append(@, [chainCalls |-> 1,
                                        chainAt |-> obs[p].arrivedAt,
                                        chainBroken |-> FALSE,
                                        closed |-> FALSE,
                                        updates |-> 0,
                                        bornSeeing |-> obs[p].rowsAtArrival,
                                        beatAt |-> NoTime])]
               /\ Goto(p, "c_first_view")
               /\ UNCHANGED req
          ELSE /\ Reply(p, req[p], Answer("error"),
                        [obs[p] EXCEPT !.failed = TRUE])
               /\ UNCHANGED <<sessions, hist>>
    /\ UNCHANGED <<now, pageViews, started>>
    /\ UNCHANGED agg

\* lines 152-160: pageView.create for the new session, then the reply
CollectFirstView(p) ==
    /\ pc[p] = "c_first_view"
    /\ LET s == loc[p].newSession
       IN /\ pageViews' = Append(pageViews,
                                 NewPageViewRow(s, req[p].path, now))
          /\ Reply(p, req[p], OkReply(s),
                   [obs[p] EXCEPT !.viewInserts =
                                      Append(@, Len(pageViews) + 1)])
    /\ hist' = [hist EXCEPT !.view =
                   Append(@, [fed |-> 0, feeds |-> 0, clean |-> TRUE])]
    /\ UNCHANGED <<now, sessions, started>>
    /\ UNCHANGED agg

\* -------------------------------------------------------------- heartbeat
\* lines 174-182: the body has passed the route's schema;
\* analyticsSession.findUnique, 404 when there is no row.
\* ok = FALSE: the lookup throws and the catch block answers 500.
HeartbeatStart(p, sid, depth, path, ok) ==
    /\ Accepting(p)
    /\ HeartbeatSchema([sessionId |-> sid, scrollDepth |-> depth])
    /\ ok \/ started.failures < MaxFailures
    /\ LET found == FindSession(sid)
           r == [kind |-> "heartbeat", visitorId |-> NoVisitor,
                 sessionId |-> sid, path |-> path, scrollDepth |-> depth,
                 meta |-> NoMeta]
           o == [IdleObs EXCEPT !.arrivedAt = now,
                                !.seenExists = sid \in SessionIds,
                                !.rowsAtArrival = Len(sessions),
                                !.failed = ~ok]
       IN IF ~ok THEN Reply(p, r, Answer("error"), o)
          ELSE IF found = NoSession
               THEN Reply(p, r, Answer(MissingSessionStatus), o)
          ELSE /\ req' = [req EXCEPT ![p] = r]
               /\ loc' = [loc EXCEPT ![p] =
                             [IdleLoc EXCEPT
                                !.session = found,
                                !.startedAt = sessions[found].startedAt]]
               /\ obs' = [obs EXCEPT ![p] = o]
               /\ Goto(p, "h_update")
    /\ started' = [started EXCEPT
                      !.calls = @ + 1,
                      !.failures = IF ok THEN @ ELSE @ + 1]
    /\ UNCHANGED <<now, sessions, pageViews, hist>>
    /\ UNCHANGED agg

\* POST /heartbeat with a body the schema refuses
HeartbeatRejected(p, sid, depth, path) ==
    LET r == [kind |-> "heartbeat", visitorId |-> NoVisitor,
              sessionId |-> sid, path |-> path, scrollDepth |-> depth,
              meta |-> NoMeta]
    IN ~HeartbeatSchema(r) /\ Rejected(p, r)

\* lines 184-192, 208: duration, analyticsSession.update, and the reply
\* when no scroll depth or no path was sent
HeartbeatUpdate(p) ==
    /\ pc[p] = "h_update"
    /\ LET s == req[p].sessionId
           o == [obs[p] EXCEPT !.sessWrites =
                                   Append(@, [op |-> "update", id |-> s])]
       IN /\ sessions' = [sessions EXCEPT ![s] =
                HeartbeatUpdateRow(@, CalledAt(p), loc[p].startedAt)]
          /\ IF req[p].scrollDepth # NoDepth /\ req[p].path # NoPath
             THEN /\ obs' = [obs EXCEPT ![p] = o]
                  /\ Goto(p, "h_find")
                  /\ UNCHANGED <<req, loc, hist>>
             ELSE /\ Reply(p, req[p], Answer("ok"), o)
                  /\ hist' = Beat(hist, p)
    /\ UNCHANGED <<now, pageViews, started>>
    /\ UNCHANGED agg

\* lines 193-197, 208: pageView.findFirst of the latest view of the path
HeartbeatFind(p) ==
    /\ pc[p] = "h_find"
    /\ LET latest == LatestViews(req[p].sessionId, req[p].path)
       IN IF latest = {}
          THEN /\ pageViews' = MissingViewRows(pageViews, req[p].sessionId,
                                               req[p].path, now)
               /\ Reply(p, req[p], Answer("ok"), obs[p])
               /\ hist' = Beat(hist, p)
          ELSE \E v \in latest :
                 /\ UNCHANGED pageViews
                 /\ loc' = [loc EXCEPT ![p] =
                       [@ EXCEPT !.latestView = v,
                                 !.latestDepth = pageViews[v].scrollDepth,
                                 !.latestTs = pageViews[v].timestamp]]
                 /\ hist' = [hist EXCEPT !.view[v] =
                       [fed |-> Max(@.fed, req[p].scrollDepth),
                        feeds |-> @.feeds + 1,
                        clean |-> /\ @.clean
                                  /\ \A q \in Procs \ {p} :
                                        ~(/\ pc[q] = "h_write"
                                          /\ loc[q].latestView = v)]]
                 /\ Goto(p, "h_write")
                 /\ UNCHANGED <<req, obs>>
    /\ UNCHANGED <<now, sessions, started>>
    /\ UNCHANGED agg

\* lines 198-208: pageView.update of scrollDepth and timeOnPage, the reply
HeartbeatWrite(p) ==
    /\ pc[p] = "h_write"
    /\ LET v == loc[p].latestView
       IN pageViews' = [pageViews EXCEPT ![v] =
             [@ EXCEPT !.scrollDepth =
                           RatchetDepth(req[p].scrollDepth, loc[p].latestDepth),
                       !.timeOnPage =
                           DurationSeconds(now, loc[p].latestTs)]]
    /\ Reply(p, req[p], Answer("ok"), obs[p])
    /\ hist' = Beat(hist, p)
    /\ UNCHANGED <<now, sessions, started>>
    /\ UNCHANGED agg

\* ------------------------------------------------------------ environment
StoreSteps == {"c_update", "c_view", "c_create", "c_first_view",
               "h_update", "h_find", "h_write"}

SessionsRolledBack(rows, writes) ==
    IF writes # <<>> /\ writes[1].op = "update"
    THEN [rows EXCEPT ![writes[1].id].pageViewCount = @ - 1]
    ELSE rows

\* the catch blocks (lines 161-164, 209-212) log and reply; the handlers
\* open no transaction, so the writes the call has made stay in the store
SessionsAfterThrow(rows, writes) == rows

\* lines 161-164, 209-212: a store call throws, the catch block answers 500
StoreFail(p) ==
    /\ pc[p] \in StoreSteps
    /\ started.failures < MaxFailures
    /\ Reply(p, req[p], Answer("error"), [obs[p] EXCEPT !.failed = TRUE])
    /\ hist' = [sess |-> [s \in SessionIds |->
                    IF req[p].kind = "collect" /\ Target(p) = s
                    THEN [hist.sess[s] EXCEPT !.chainBroken = TRUE]
                    ELSE hist.sess[s]],
                view |-> [v \in ViewIds |->
                    IF pc[p] = "h_write" /\ loc[p].latestView = v
                    THEN [hist.view[v] EXCEPT !.clean = FALSE]
                    ELSE hist.view[v]]]
    /\ started' = [started EXCEPT !.failures = @ + 1]
    /\ sessions' = SessionsAfterThrow(sessions, obs[p].sessWrites)
    /\ UNCHANGED <<now, pageViews>>
    /\ UNCHANGED agg

\* The clock advances by d.  A session left without any event for more
\* than the timeout, with no request on it in progress, is recorded as
\* closed.
Elapse(d) ==
    /\ now + d <= MaxTime
    /\ now' = now + d
    /\ hist' = [hist EXCEPT !.sess = [s \in SessionIds |->
                   [hist.sess[s] EXCEPT !.closed =
                       \/ @
                       \/ /\ now' - sessions[s].lastActiveAt > SessionTimeout
                          /\ \A p \in Procs : ~InFlightOn(p, s)]]]
    /\ last' = NoCall
    /\ UNCHANGED <<sessions, pageViews, pc, req, loc, obs, started>>
    /\ UNCHANGED agg

\* A store round trip is far shorter than a minute, so no store call is
\* outstanding when the clock steps by minutes: every request in progress
\* is waiting for the geo service (fetch, line 39, has no timeout).
Tick(d) ==
    /\ \A p \in Procs : pc[p] \in {"idle", "c_geo"}
    /\ Elapse(d)

Next ==
    \/ \E p \in Procs :
          /\ Accepting(p)
          /\ \E v \in Visitors \cup {NoVisitor},
                sid \in 0..(Len(sessions) + 1),
                path \in Paths \cup {NoPath}, ok \in BOOLEAN :
                CollectStart(p, v, sid, path, MetaSent(path), ok)
    \/ \E p \in Procs :
          /\ Accepting(p)
          /\ \E v \in Visitors \cup {NoVisitor},
                sid \in 0..(Len(sessions) + 1),
                path \in Paths \cup {NoPath} :
                CollectRejected(p, v, sid, path)
    \/ \E p \in Procs : CollectUpdate(p)
    \/ \E p \in Procs : CollectView(p)
    \/ \E p \in Procs, ip \in Ips : CollectGeo(p, ip)
    \/ \E p \in Procs : CollectCreate(p)
    \/ \E p \in Procs : CollectFirstView(p)
    \/ \E p \in Procs :
          /\ Accepting(p)
          /\ \E sid \in 0..(Len(sessions) + 1),
                b \in HeartbeatBodies \cup BadHeartbeatBodies,
                ok \in BOOLEAN :
                HeartbeatStart(p, sid, b[1], b[2], ok)
    \/ \E p \in Procs :
          /\ Accepting(p)
          /\ \E sid \in 0..(Len(sessions) + 1),
                b \in HeartbeatBodies \cup BadHeartbeatBodies :
                HeartbeatRejected(p, sid, b[1], b[2])
    \/ \E p \in Procs : HeartbeatUpdate(p)
    \/ \E p \in Procs : HeartbeatFind(p)
    \/ \E p \in Procs : HeartbeatWrite(p)
    \/ \E p \in Procs : StoreFail(p)
    \/ \E d \in TickSteps : Tick(d)

Spec == Init /\ [][Next]_vars

\* Collect calls of one visitor on one path, with the scheduling the code
\* guarantees: a store call that has been issued completes (the store
\* answers or throws), so every store step of a request in progress is
\* eventually taken.  The answer of the geolocation service is outside the
\* program and fetch (line 39) is given no signal and no timeout, so
\* nothing obliges the geo step to be taken.
GeoWaitNext ==
    \/ \E p \in Procs :
          /\ Accepting(p)
          /\ \E sid \in 0..(Len(sessions) + 1) :
                CollectStart(p, SeedVisitor, sid, SeedPath,
                             MetaSent(SeedPath), TRUE)
    \/ \E p \in Procs : CollectUpdate(p)
    \/ \E p \in Procs : CollectView(p)
    \/ \E p \in Procs, ip \in Ips : CollectGeo(p, ip)
    \/ \E p \in Procs : CollectCreate(p)
    \/ \E p \in Procs : CollectFirstView(p)
    \/ \E d \in TickSteps : Tick(d)

StoreAnswers ==
    \A p \in Procs :
        /\ WF_vars(CollectUpdate(p))
        /\ WF_vars(CollectView(p))
        /\ WF_vars(CollectCreate(p))
        /\ WF_vars(CollectFirstView(p))

GeoWaitSpec == Init /\ [][GeoWaitNext]_vars /\ StoreAnswers

\* Collect calls and heartbeats (without scroll depth) of one visitor on
\* one path, with the clock stepping by one minute and by the length of
\* the window, so that a call can arrive exactly 30 and 31 minutes after
\* another.  The geolocation service answers within the minute here.
WindowNext ==
    \/ \E p \in Procs :
          /\ Accepting(p)
          /\ \E sid \in 0..(Len(sessions) + 1) :
                CollectStart(p, SeedVisitor, sid, SeedPath,
                             MetaSent(SeedPath), TRUE)
    \/ \E p \in Procs : CollectUpdate(p)
    \/ \E p \in Procs : CollectView(p)
    \/ \E p \in Procs : CollectGeo(p, "127.0.0.1")
    \/ \E p \in Procs : CollectCreate(p)
    \/ \E p \in Procs : CollectFirstView(p)
    \/ \E p \in Procs :
          /\ Accepting(p)
          /\ \E sid \in 0..(Len(sessions) + 1) :
                HeartbeatStart(p, sid, NoDepth, NoPath, TRUE)
    \/ \E p \in Procs : HeartbeatUpdate(p)
    \/ /\ \A p \in Procs : pc[p] = "idle"
       /\ \E d \in {1, SessionTimeout} : Tick(d)

WindowSpec == Init /\ [][WindowNext]_vars

\* Requests of one visitor on one session with the clock read at the grain
\* at which two handlers can tell their readings apart: the clock moves on
\* while store calls are outstanding, up to MaxElapse.  The store applies
\* the calls it has received in any order (each request has its own
\* connection of the pool).
RaceNext ==
    \/ \E p \in Procs :
          /\ Accepting(p)
          /\ \E sid \in 0..(Len(sessions) + 1) :
                CollectStart(p, SeedVisitor, sid, SeedPath,
                             MetaSent(SeedPath), TRUE)
    \/ \E p \in Procs : CollectUpdate(p)
    \/ \E p \in Procs : CollectView(p)
    \/ \E p \in Procs : CollectGeo(p, "127.0.0.1")
    \/ \E p \in Procs : CollectCreate(p)
    \/ \E p \in Procs : CollectFirstView(p)
    \/ \E p \in Procs :
          /\ Accepting(p)
          /\ \E sid \in 0..(Len(sessions) + 1) :
                HeartbeatStart(p, sid, NoDepth, NoPath, TRUE)
    \/ \E p \in Procs : HeartbeatUpdate(p)
    \/ now < MaxElapse /\ Elapse(1)

RaceSpec == Init /\ [][RaceNext]_vars

\* ------------------------------------------------------------ aggregation
\* Figures with one decimal (rates, percentages) are held as integers in
\* tenths: Math.round(x * 10) / 10 is held as Math.round(x * 10).
Tenths == 10
Percent == 100

Abs(x) == IF x < 0 THEN 0 - x ELSE x

\* Math.round(num / den): the nearest integer, a half rounded up
Round(num, den) ==
    LET n == IF den < 0 THEN 0 - num ELSE num
        d == Abs(den)
    IN (2 * n + d) \div (2 * d)

pctChangeTruncated(curr, prev) ==
    IF prev = 0 THEN (IF curr > 0 THEN Percent * Tenths ELSE 0)
    ELSE ((curr - prev) * Percent * Tenths) \div prev

\* lines 293-296: pctChange(curr, prev), in tenths of a percent
pctChange(curr, prev) ==
    IF prev = 0 THEN (IF curr > 0 THEN Percent * Tenths ELSE 0)
    ELSE Round((curr - prev) * Percent * Tenths, prev)

\* pctChange applied to one pair of figures
PctInputs == (0 - 2)..MaxCount

PctInit ==
    /\ now = 0
    /\ sessions = <<>>
    /\ pageViews = <<>>
    /\ hist = [sess |-> <<>>, view |-> <<>>]
    /\ pc = [p \in Procs |-> "idle"]
    /\ req = [p \in Procs |-> IdleReq]
    /\ loc = [p \in Procs |-> IdleLoc]
    /\ obs = [p \in Procs |-> IdleObs]
    /\ last = NoCall
    /\ started = [calls |-> 0, failures |-> 0]
    /\ \E c \in PctInputs, p \in PctInputs :
          agg = [pc |-> "pct", curr |-> c, prev |-> p, out |-> 0,
                 done |-> FALSE]

PctApply ==
    /\ agg.pc = "pct"
    /\ ~agg.done
    /\ agg' = [agg EXCEPT !.out = pctChange(agg.curr, agg.prev),
                          !.done = TRUE]
    /\ UNCHANGED <<now, sessions, pageViews, pc, req, loc, obs, last, hist,
                   started>>

PctNext == PctApply

PctSpec == PctInit /\ [][PctNext]_vars

\* ---------------------------------------------------------- summary stats
MinutesPerDay == 1440
EpochTime == 0 - 400 * MinutesPerDay       \* new Date(0)
Ranges == {"today", "7d", "30d", "all"}
Queries == {"sessions", "pageViews", "prevSessions", "prevPageViews"}

\* new Date(y, m, d): the start of the day of t (server time taken as UTC)
DayStart(t) == t - ((t - EpochTime) % MinutesPerDay)

\* lines 228-249: since, prevSince, prevUntil for a range selector
Since(range, t) ==
    CASE range = "today" -> DayStart(t)
      [] range = "30d" -> t - 30 * MinutesPerDay
      [] range = "all" -> EpochTime
      [] OTHER -> t - 7 * MinutesPerDay

PrevSince(range, t) ==
    CASE range = "today" -> Since(range, t) - MinutesPerDay
      [] range = "30d" -> Since(range, t) - 30 * MinutesPerDay
      [] range = "all" -> EpochTime
      [] OTHER -> Since(range, t) - 7 * MinutesPerDay

PrevUntil(range, t) ==
    IF range = "all" THEN EpochTime ELSE Since(range, t)

ReadsPreviousAlways(range) == TRUE

\* lines 261, 267: range !== "all" ? <store query> : Promise.resolve(..)
ReadsPrevious(range) == range # "all"

\* select: { visitorId, duration, bounced, pageViewCount }
Figures(row) ==
    [visitorId |-> row.visitorId, duration |-> row.duration,
     bounced |-> row.bounced, pageViewCount |-> row.pageViewCount]

FiguresOf(rows) == [i \in 1..Len(rows) |-> Figures(rows[i])]

\* analyticsSession.findMany({ where: { startedAt: { gte: since } } })
SessionsSince(rows, since) ==
    LET In(r) == r.startedAt >= since
    IN FiguresOf(SelectSeq(rows, In))

\* analyticsSession.findMany({ where: { startedAt: { gte, lt } } })
SessionsBetween(rows, from, until) ==
    LET In(r) == r.startedAt >= from /\ r.startedAt < until
    IN FiguresOf(SelectSeq(rows, In))

\* pageView.count({ where: { timestamp: { gte: since } } })
ViewsSince(rows, since) ==
    Cardinality({v \in 1..Len(rows) : rows[v].timestamp >= since})

\* pageView.count({ where: { timestamp: { gte, lt } } })
ViewsBetween(rows, from, until) ==
    Cardinality({v \in 1..Len(rows) :
                    rows[v].timestamp >= from /\ rows[v].timestamp < until})

\* what one query of the Promise.all reads from the store rows
QueryResult(q, srows, vrows, range, t) ==
    CASE q = "sessions" -> SessionsSince(srows, Since(range, t))
      [] q = "pageViews" -> ViewsSince(vrows, Since(range, t))
      [] q = "prevSessions" ->
             SessionsBetween(srows, PrevSince(range, t), PrevUntil(range, t))
      [] OTHER ->
             ViewsBetween(vrows, PrevSince(range, t), PrevUntil(range, t))

RECURSIVE SeqSum(_)
SeqSum(f) == IF f = <<>> THEN 0 ELSE f[1] + SeqSum(Tail(f))

\* lines 272-291: the figures of one period
UniqueVisitors(ss) == Cardinality({ss[i].visitorId : i \in 1..Len(ss)})

AvgDuration(ss) ==
    IF Len(ss) > 0
    THEN Round(SeqSum([i \in 1..Len(ss) |-> ss[i].duration]), Len(ss))
    ELSE 0

BounceRate(ss) ==
    IF Len(ss) > 0
    THEN Round(Cardinality({i \in 1..Len(ss) : ss[i].bounced})
                 * Percent * Tenths, Len(ss))
    ELSE 0

PagesPerSession(ss) ==
    IF Len(ss) > 0
    THEN Round(SeqSum([i \in 1..Len(ss) |-> ss[i].pageViewCount]) * Tenths,
               Len(ss))
    ELSE 0

\* lines 298-314: the data of the reply
StatsData(ss, views, prevSs, prevViews, range) ==
    [visitors |-> UniqueVisitors(ss),
     visitorsChange |-> pctChange(UniqueVisitors(ss), UniqueVisitors(prevSs)),
     sessions |-> Len(ss),
     sessionsChange |-> pctChange(Len(ss), Len(prevSs)),
     pageViews |-> views,
     pageViewsChange |-> pctChange(views, prevViews),
     avgDuration |-> AvgDuration(ss),
     avgDurationChange |-> pctChange(AvgDuration(ss), AvgDuration(prevSs)),
     bounceRate |-> BounceRate(ss),
     bounceRateChange |-> pctChange(BounceRate(ss), BounceRate(prevSs)),
     pagesPerSession |-> PagesPerSession(ss),
     range |-> range]

NoData == [range |-> "none"]

\* the rows of the two tables at this moment
Store == [sessions |-> sessions, pageViews |-> pageViews]

\* The store has rows from eight days ago: one collect call has been served
\* then (lines 129-158).
OldTime == 0 - 8 * MinutesPerDay

StatsInit ==
    /\ now = 0
    /\ sessions = <<NewSessionRow(SeedVisitor, SeedPath, MetaSent(SeedPath),
                                  GeoLocal, OldTime)>>
    /\ pageViews = <<NewPageViewRow(1, SeedPath, OldTime)>>
    /\ hist = [sess |-> <<[chainCalls |-> 1, chainAt |-> OldTime,
                           chainBroken |-> FALSE, closed |-> TRUE,
                           updates |-> 0, bornSeeing |-> 0,
                           beatAt |-> NoTime]>>,
               view |-> <<[fed |-> 0, feeds |-> 0, clean |-> TRUE]>>]
    /\ pc = [p \in Procs |-> "idle"]
    /\ req = [p \in Procs |-> IdleReq]
    /\ loc = [p \in Procs |-> IdleLoc]
    /\ obs = [p \in Procs |-> IdleObs]
    /\ last = NoCall
    /\ started = [calls |-> 0, failures |-> 0]
    /\ agg = IdleAgg

\* lines 220-270: the range is read, the bounds are computed from the clock
\* and the queries of the Promise.all are issued; for range "all" the two
\* previous-period figures are resolved without a store call
StatsStart(range) ==
    /\ agg.pc = "idle"
    /\ agg' = [pc |-> "reading", range |-> range, at |-> now,
               pending |-> IF ReadsPrevious(range)
                           THEN Queries
                           ELSE {"sessions", "pageViews"},
               got |-> [q \in Queries |->
                          IF q \in {"sessions", "prevSessions"}
                          THEN <<>> ELSE 0],
               reads |-> {},
               snaps |-> {Store},
               status |-> "none",
               data |-> NoData]
    /\ UNCHANGED <<now, sessions, pageViews, pc, req, loc, obs, last, hist,
                   started>>

\* the store answers one of the queries, in any order
StatsRead(q) ==
    /\ agg.pc = "reading"
    /\ q \in agg.pending
    /\ agg' = [agg EXCEPT
                 !.pending = @ \ {q},
                 !.got[q] = QueryResult(q, sessions, pageViews,
                                        agg.range, agg.at),
                 !.reads = @ \cup {q},
                 !.snaps = @ \cup {Store}]
    /\ UNCHANGED <<now, sessions, pageViews, pc, req, loc, obs, last, hist,
                   started>>

\* lines 272-314: all queries have answered; the figures are computed and
\* sent
StatsReply ==
    /\ agg.pc = "reading"
    /\ agg.pending = {}
    /\ agg' = [agg EXCEPT
                 !.pc = "done",
                 !.status = "success",
                 !.snaps = @ \cup {Store},
                 !.data = StatsData(agg.got["sessions"], agg.got["pageViews"],
                                    agg.got["prevSessions"],
                                    agg.got["prevPageViews"], agg.range)]
    /\ UNCHANGED <<now, sessions, pageViews, pc, req, loc, obs, last, hist,
                   started>>

\* lines 315-318: a query throws, the Promise.all rejects and the catch
\* block answers 500
StatsFail(q) ==
    /\ agg.pc = "reading"
    /\ q \in agg.pending
    /\ started.failures < MaxFailures
    /\ agg' = [agg EXCEPT !.pc = "done", !.status = "error",
                          !.reads = @ \cup {q}]
    /\ started' = [started EXCEPT !.failures = @ + 1]
    /\ UNCHANGED <<now, sessions, pageViews, pc, req, loc, obs, last, hist>>

\* History: the store states that exist while the dashboard request is in
\* progress are noted in agg.snaps; the store moves on only from a noted
\* state, so none is missed.
Noted == agg.pc = "reading" => Store \in agg.snaps

StatsNote ==
    /\ agg.pc = "reading"
    /\ Store \notin agg.snaps
    /\ agg' = [agg EXCEPT !.snaps = @ \cup {Store}]
    /\ UNCHANGED <<now, sessions, pageViews, pc, req, loc, obs, last, hist,
                   started>>

\* a dashboard request while collect calls of one visitor are served
StatsNext ==
    \/ \E p \in Procs :
          /\ Accepting(p)
          /\ \E sid \in 0..(Len(sessions) + 1) :
                CollectStart(p, SeedVisitor, sid, SeedPath,
                             MetaSent(SeedPath), TRUE)
    \/ \E p \in Procs : Noted /\ CollectUpdate(p)
    \/ \E p \in Procs : Noted /\ CollectView(p)
    \/ \E p \in Procs : CollectGeo(p, "127.0.0.1")
    \/ \E p \in Procs : Noted /\ CollectCreate(p)
    \/ \E p \in Procs : Noted /\ CollectFirstView(p)
    \/ \E range \in Ranges : StatsStart(range)
    \/ \E q \in Queries : StatsRead(q)
    \/ StatsReply
    \/ \E q \in Queries : StatsFail(q)
    \/ StatsNote

StatsSpec == StatsInit /\ [][StatsNext]_vars

\* ------------------------------------------------------------- referrers
\* the keys of a Map in insertion order: the values of seq, each at its
\* first occurrence
RECURSIVE Distinct(_)
Distinct(seq) ==
    IF seq = <<>> THEN <<>>
    ELSE LET rest == Distinct(SubSeq(seq, 1, Len(seq) - 1))
             x == seq[Len(seq)]
         IN IF \E i \in 1..Len(rest) : rest[i] = x THEN rest
            ELSE Append(rest, x)

\* Array.prototype.sort with a comparator that is the difference of two
\* ranks: ascending in rank, elements of equal rank keep their order
RECURSIVE InsertRanked(_, _)
InsertRanked(e, sorted) ==
    IF sorted = <<>> THEN <<e>>
    ELSE IF e.rank < sorted[1].rank THEN <<e>> \o sorted
    ELSE <<sorted[1]>> \o InsertRanked(e, Tail(sorted))

RECURSIVE SortRanked(_)
SortRanked(seq) ==
    IF seq = <<>> THEN <<>>
    ELSE InsertRanked(seq[Len(seq)], SortRanked(SubSeq(seq, 1, Len(seq) - 1)))

SortedBy(items, rank) ==
    LET sorted == SortRanked([i \in 1..Len(items) |->
                                 [rank |-> rank[i], item |-> items[i]]])
    IN [i \in 1..Len(sorted) |-> sorted[i].item]

\* .sort((a, b) => b.count - a.count) on the field the view sorts by
Descending(counts) == [i \in 1..Len(counts) |-> 0 - counts[i]]

\* findMany({ where: { startedAt: { gte: since } } }) with all columns
SessionRowsSince(rows, since) ==
    LET In(r) == r.startedAt >= since
    IN SelectSeq(rows, In)

\* line 648: the category of each of the sessions read
SourcesOf(ss) ==
    [i \in 1..Len(ss) |->
        categorizeTrafficSource(ss[i].referrerDomain, ss[i].utmSource)]

\* Math.round((count / total) * 100 * 10) / 10, in tenths
Share(count, total) ==
    IF total > 0 THEN Round(count * Percent * Tenths, total) ELSE 0

\* lines 644-667: sessions and visitors per category, most sessions first
TrafficSources(ss) ==
    LET source == SourcesOf(ss)
        names == Distinct(source)
        Entry(n) ==
            LET of == {i \in 1..Len(ss) : source[i] = n}
            IN [name |-> n, sessions |-> Cardinality(of),
                visitors |-> Cardinality({ss[i].visitorId : i \in of}),
                percentage |-> Share(Cardinality(of), Len(ss))]
        list == [k \in 1..Len(names) |-> Entry(names[k])]
    IN SortedBy(list, Descending([k \in 1..Len(list) |-> list[k].sessions]))

TopReferrers == 20

\* lines 653-657, 669-677: the raw referrer domains, most sessions first
ReferrerDomains(ss) ==
    LET with == LET Has(r) == r.referrerDomain # NoDomain
                IN SelectSeq(ss, Has)
        names == Distinct([i \in 1..Len(with) |-> with[i].referrerDomain])
        Entry(n) ==
            LET of == {i \in 1..Len(with) : with[i].referrerDomain = n}
            IN [domain |-> n, sessions |-> Cardinality(of),
                visitors |-> Cardinality({with[i].visitorId : i \in of}),
                percentage |-> Share(Cardinality(of), Len(ss))]
        list == [k \in 1..Len(names) |-> Entry(names[k])]
        sorted == SortedBy(list, Descending([k \in 1..Len(list) |->
                                                list[k].sessions]))
    IN SubSeq(sorted, 1, IF Len(sorted) < TopReferrers THEN Len(sorted)
                         ELSE TopReferrers)

\* getReferrersHandler (lines 616-684) in one step: the range is read, the
\* sessions since its start are read from the store and the two lists are
\* sent; ok = FALSE: the query throws and the catch block answers 500.
\* agg.read keeps the rows read and agg.assigned their categories.
ReferrersReply(range, ok) ==
    /\ agg.pc = "idle"
    /\ ok \/ started.failures < MaxFailures
    /\ LET ss == SessionRowsSince(sessions, Since(range, now))
       IN agg' = [pc |-> "done", view |-> "referrers", range |-> range,
                  status |-> IF ok THEN "success" ELSE "error",
                  read |-> IF ok THEN ss ELSE <<>>,
                  assigned |-> IF ok THEN SourcesOf(ss) ELSE <<>>,
                  data |-> IF ok
                           THEN [sources |-> TrafficSources(ss),
                                 referrers |-> ReferrerDomains(ss)]
                           ELSE NoData]
    /\ started' = [started EXCEPT !.failures = IF ok THEN @ ELSE @ + 1]
    /\ UNCHANGED <<now, sessions, pageViews, pc, req, loc, obs, last, hist>>

\* the referrers and UTM sources of the sessions in the store
ReferrerInputs ==
    {NoReferrer, BadReferrer,
     Url(<<"w", "w", "w", ".", "g", "o", "o", "g", "l", "e", ".", "c", "o",
         "m">>),
     Url(<<"m", ".", "f", "a", "c", "e", "b", "o", "o", "k", ".", "c", "o",
         "m">>),
     Url(<<"e", "x", "a", "m", "p", "l", "e", ".", "o", "r", "g">>)}

UtmInputs ==
    {NoUtm,
     <<"f", "a", "c", "e", "b", "o", "o", "k", "_", "a", "d", "s">>,
     <<"F", "a", "c", "e", "b", "o", "o", "k">>,
     <<"n", "e", "w", "s", "l", "e", "t", "t", "e", "r", "_", "m", "a",
     "y">>,
     <<"s", "p", "r", "i", "n", "g", "_", "s", "a", "l", "e">>}

MaxRows == 2

\* The store holds up to MaxRows sessions of the seed visitor, each with
\* its first page view (lines 129-158), begun eight days ago or now, in the
\* order of their creation.
ReferrersInit ==
    /\ now = 0
    /\ \E n \in 0..MaxRows :
       \E ref \in [1..n -> ReferrerInputs], utm \in [1..n -> UtmInputs],
          at \in [1..n -> {OldTime, 0}] :
          /\ \A i, j \in 1..n : i < j => at[i] <= at[j]
          /\ sessions = [i \in 1..n |->
                NewSessionRow(SeedVisitor, SeedPath,
                              [referrer |-> ref[i], utmSource |-> utm[i],
                               deviceType |-> NoDevice],
                              GeoLocal, at[i])]
          /\ pageViews = [i \in 1..n |-> NewPageViewRow(i, SeedPath, at[i])]
    /\ hist = [sess |-> <<>>, view |-> <<>>]
    /\ pc = [p \in Procs |-> "idle"]
    /\ req = [p \in Procs |-> IdleReq]
    /\ loc = [p \in Procs |-> IdleLoc]
    /\ obs = [p \in Procs |-> IdleObs]
    /\ last = NoCall
    /\ started = [calls |-> 0, failures |-> 0]
    /\ agg = IdleAgg

ReferrersNext == \E range \in Ranges, ok \in BOOLEAN : ReferrersReply(range, ok)

ReferrersSpec == ReferrersInit /\ [][ReferrersNext]_vars

\* ----------------------------------------------- time series, top pages
MinutesPerHour == 60
HoursPerDay == 24
LongestDays == 90

\* d.getFullYear(), d.getMonth(), d.getDate() as the number of the calendar
\* day, and d.getHours() (server time taken as UTC)
DayOf(t) == (t - EpochTime) \div MinutesPerDay
HourOf(t) == ((t - EpochTime) % MinutesPerDay) \div MinutesPerHour

\* lines 333-350: since and granularity for a range selector
SeriesSince(range, t) ==
    CASE range = "today" -> DayStart(t)
      [] range = "30d" -> t - 30 * MinutesPerDay
      [] range = "all" -> t - LongestDays * MinutesPerDay
      [] OTHER -> t - 7 * MinutesPerDay

AlwaysByDay(range) == "day"

Granularity(range) == IF range = "today" THEN "hour" ELSE "day"

\* lines 364-366: the key "YYYY-MM-DDTHH:00" or "YYYY-MM-DD" of a timestamp,
\* held as its day and hour fields (hour 0 in a day key)
BucketKey(granularity, t) ==
    [day |-> DayOf(t),
     hour |-> IF granularity = "hour" THEN HourOf(t) ELSE 0]

\* a.time.localeCompare(b.time) on keys of one granularity: the fields are
\* zero padded, so the strings compare as day, then hour
KeyRank(key) == key.day * HoursPerDay + key.hour

\* pageView.findMany({ where: { timestamp: { gte: since } },
\*                     orderBy: { timestamp: "asc" } })
ViewRowsSince(rows, since) ==
    LET In(r) == r.timestamp >= since
        read == SelectSeq(rows, In)
    IN SortedBy(read, [i \in 1..Len(read) |-> read[i].timestamp])

\* lines 360-382: one bucket per key met, in ascending order of the keys
TimeSeries(views, granularity) ==
    LET key == [i \in 1..Len(views) |->
                   BucketKey(granularity, views[i].timestamp)]
        keys == Distinct(key)
        Entry(k) ==
            LET of == {i \in 1..Len(views) : key[i] = k}
            IN [time |-> k, views |-> Cardinality(of),
                visitors |-> Cardinality({views[i].sessionId : i \in of})]
        list == [n \in 1..Len(keys) |-> Entry(keys[n])]
    IN SortedBy(list, [n \in 1..Len(list) |-> KeyRank(list[n].time)])

\* getTimeSeriesHandler (lines 322-389) in one step; ok = FALSE: the query
\* throws and the catch block answers 500.  agg.at keeps the clock.
TimeSeriesReply(range, ok) ==
    /\ agg.pc = "idle"
    /\ ok \/ started.failures < MaxFailures
    /\ LET views == ViewRowsSince(pageViews, SeriesSince(range, now))
       IN agg' = [pc |-> "done", view |-> "time-series", range |-> range,
                  at |-> now,
                  status |-> IF ok THEN "success" ELSE "error",
                  data |-> IF ok
                           THEN [series |->
                                    TimeSeries(views, Granularity(range)),
                                 granularity |-> Granularity(range)]
                           ELSE NoData]
    /\ started' = [started EXCEPT !.failures = IF ok THEN @ ELSE @ + 1]
    /\ UNCHANGED <<now, sessions, pageViews, pc, req, loc, obs, last, hist>>

DefaultLimit == 20

\* v.timeOnPage and v.scrollDepth are counted when truthy: not null, not 0
Truthy(x) == x > 0

\* Math.round(total / count), 0 for count = 0
Mean(total, count) == IF count > 0 THEN Round(total, count) ELSE 0

\* the Session row's flag in place of the count of views
FlaggedBounced(views, sid) == sessions[sid].bounced

\* lines 438-446: sessionPageCounts.get(s) === 1, counted over all the
\* views read
SingleView(views, sid) ==
    Cardinality({i \in 1..Len(views) : views[i].sessionId = sid}) = 1

\* lines 416-460: one entry per path, most views first, at most limit
TopPages(views, limit) ==
    LET paths == Distinct([i \in 1..Len(views) |-> views[i].path])
        Entry(path) ==
            LET of == {i \in 1..Len(views) : views[i].path = path}
                timed == {i \in of : Truthy(views[i].timeOnPage)}
                scrolled == {i \in of : Truthy(views[i].scrollDepth)}
                owners == {views[i].sessionId : i \in of}
                bouncedSessions ==
                    {x \in owners : SingleView(views, x)}
                RECURSIVE Total(_, _)
                Total(set, field) ==
                    IF set = {} THEN 0
                    ELSE LET i == CHOOSE i \in set : TRUE
                         IN views[i][field] + Total(set \ {i}, field)
            IN [path |-> path, views |-> Cardinality(of),
                uniqueVisitors |-> Cardinality(owners),
                avgTime |-> Mean(Total(timed, "timeOnPage"),
                                 Cardinality(timed)),
                avgScroll |-> Mean(Total(scrolled, "scrollDepth"),
                                   Cardinality(scrolled)),
                bounceRate |->
                    IF Cardinality(owners) > 0
                    THEN Round(Cardinality(bouncedSessions) * Percent,
                               Cardinality(owners))
                    ELSE 0]
        list == [n \in 1..Len(paths) |-> Entry(paths[n])]
        sorted == SortedBy(list, Descending([n \in 1..Len(list) |->
                                                list[n].views]))
    IN SubSeq(sorted, 1, IF Len(sorted) < limit THEN Len(sorted) ELSE limit)

\* lines 411-414: pageView.findMany({ where: { timestamp: { gte: since } } })
ViewRowsFrom(rows, since) ==
    LET In(r) == r.timestamp >= since
    IN SelectSeq(rows, In)

\* getTopPagesHandler (lines 392-467) in one step; ok = FALSE: the query
\* throws and the catch block answers 500
TopPagesReply(range, limit, ok) ==
    /\ agg.pc = "idle"
    /\ ok \/ started.failures < MaxFailures
    /\ LET views == ViewRowsFrom(pageViews, Since(range, now))
       IN agg' = [pc |-> "done", view |-> "top-pages", range |-> range,
                  at |-> now,
                  status |-> IF ok THEN "success" ELSE "error",
                  data |-> IF ok THEN [pages |-> TopPages(views, limit)]
                           ELSE NoData]
    /\ started' = [started EXCEPT !.failures = IF ok THEN @ ELSE @ + 1]
    /\ UNCHANGED <<now, sessions, pageViews, pc, req, loc, obs, last, hist>>

\* The store that collect calls of one visitor leave behind: each event is
\* a page view <<session, path, time>> served by collectHandler, which
\* creates the session (lines 129-158) or updates it (lines 99-117).
RECURSIVE StoreAfter(_)
StoreAfter(events) ==
    IF events = <<>> THEN [sessions |-> <<>>, pageViews |-> <<>>]
    ELSE LET before == StoreAfter(SubSeq(events, 1, Len(events) - 1))
             e == events[Len(events)]
             view == NewPageViewRow(e[1], e[2], e[3])
         IN IF e[1] > Len(before.sessions)
            THEN [sessions |->
                     Append(before.sessions,
                            NewSessionRow(SeedVisitor, e[2], MetaSent(e[2]),
                                          GeoLocal, e[3])),
                  pageViews |-> Append(before.pageViews, view)]
            ELSE [sessions |->
                     [before.sessions EXCEPT ![e[1]] =
                         CollectUpdateRow(@, e[2], e[3], @.pageViewCount)],
                  pageViews |-> Append(before.pageViews, view)]

\* each event is one collectHandler can have served in its turn: time does
\* not run backwards, and the event opens the next session or falls on a
\* session that is open at its time
Served(events) ==
    \A i \in 1..Len(events) :
        LET before == StoreAfter(SubSeq(events, 1, i - 1))
            e == events[i]
        IN /\ i > 1 => events[i - 1][3] <= e[3]
           /\ e[1] <= Len(before.sessions) + 1
           /\ e[1] <= Len(before.sessions)
                => IsOpen(before.sessions[e[1]], SeedVisitor, e[3])

\* times of page views: 23:55 of the day before, 00:10, 10:05, 10:55 and
\* 11:02; the views are asked for at noon
MaxViews == 4

PageViewsInit ==
    /\ now = 12 * MinutesPerHour
    /\ \E n \in 0..MaxViews :
       \E events \in [1..n -> (1..2) \X Paths
                                  \X {0 - 5, 10, 605, 655, 662}] :
          /\ Served(events)
          /\ sessions = StoreAfter(events).sessions
          /\ pageViews = StoreAfter(events).pageViews
    /\ hist = [sess |-> <<>>, view |-> <<>>]
    /\ pc = [p \in Procs |-> "idle"]
    /\ req = [p \in Procs |-> IdleReq]
    /\ loc = [p \in Procs |-> IdleLoc]
    /\ obs = [p \in Procs |-> IdleObs]
    /\ last = NoCall
    /\ started = [calls |-> 0, failures |-> 0]
    /\ agg = IdleAgg

PageViewsNext ==
    \/ \E range \in Ranges, ok \in BOOLEAN : TimeSeriesReply(range, ok)
    \/ \E range \in Ranges, limit \in {1, DefaultLimit}, ok \in BOOLEAN :
          TopPagesReply(range, limit, ok)

PageViewsSpec == PageViewsInit /\ [][PageViewsNext]_vars

\* ------------------------------------------------------------- realtime
\* The realtime view is modelled with the clock counting seconds.
ActiveWindow == 5 * SecondsPerMinute
TopActivePages == 10

IsActiveStrict(row, t) == row.lastActiveAt > t - ActiveWindow

\* line 697: where: { lastActiveAt: { gte: fiveMinAgo } }
IsActive(row, t) == row.lastActiveAt >= t - ActiveWindow

ActiveSessionRows(rows, t) ==
    LET In(r) == IsActive(r, t)
    IN SelectSeq(rows, In)

\* line 709: s.exitPage || "/"
PageOf(row) == IF row.exitPage = NoPath THEN "/" ELSE row.exitPage

\* lines 707-716: sessions per exit page, most sessions first, at most ten
ActivePages(ss) ==
    LET page == [i \in 1..Len(ss) |-> PageOf(ss[i])]
        pages == Distinct(page)
        list == [n \in 1..Len(pages) |->
                    [page |-> pages[n],
                     count |-> Cardinality({i \in 1..Len(ss) :
                                               page[i] = pages[n]})]]
        sorted == SortedBy(list, Descending([n \in 1..Len(list) |->
                                                list[n].count]))
    IN SubSeq(sorted, 1, IF Len(sorted) < TopActivePages THEN Len(sorted)
                         ELSE TopActivePages)

\* getRealtimeHandler (lines 687-730) in one step; the handler does not read
\* request.query, so the range passed has no part in the reply; ok = FALSE:
\* the query throws and the catch block answers 500
RealtimeReply(range, ok) ==
    /\ agg.pc = "idle"
    /\ ok \/ started.failures < MaxFailures
    /\ LET ss == ActiveSessionRows(sessions, now)
       IN agg' = [pc |-> "done", view |-> "realtime", range |-> range,
                  at |-> now,
                  status |-> IF ok THEN "success" ELSE "error",
                  data |-> IF ok
                           THEN [activeVisitors |->
                                    Cardinality({ss[i].visitorId :
                                                    i \in 1..Len(ss)}),
                                 activeSessions |-> Len(ss),
                                 activePages |-> ActivePages(ss)]
                           ELSE NoData]
    /\ started' = [started EXCEPT !.failures = IF ok THEN @ ELSE @ + 1]
    /\ UNCHANGED <<now, sessions, pageViews, pc, req, loc, obs, last, hist>>

\* the view is asked for at second 1000; sessions have been created, each by
\* one collect call (lines 129-158), 5 min 1 s, 5 min, 4 min 59 s before
\* that or in the same second
AskedAt == 1000
MaxActive == 3

RealtimeInit ==
    /\ now = AskedAt
    /\ \E n \in 0..MaxActive :
       \E events \in [1..n -> Visitors \X Paths
                                   \X {AskedAt - 301, AskedAt - 300,
                                       AskedAt - 299, AskedAt}] :
          /\ \A i \in 2..n : events[i - 1][3] <= events[i][3]
          /\ sessions = [i \in 1..n |->
                            NewSessionRow(events[i][1], events[i][2],
                                          MetaSent(events[i][2]), GeoLocal,
                                          events[i][3])]
          /\ pageViews = [i \in 1..n |->
                             NewPageViewRow(i, events[i][2], events[i][3])]
    /\ hist = [sess |-> <<>>, view |-> <<>>]
    /\ pc = [p \in Procs |-> "idle"]
    /\ req = [p \in Procs |-> IdleReq]
    /\ loc = [p \in Procs |-> IdleLoc]
    /\ obs = [p \in Procs |-> IdleObs]
    /\ last = NoCall
    /\ started = [calls |-> 0, failures |-> 0]
    /\ agg = IdleAgg

RealtimeNext ==
    \E range \in Ranges, ok \in BOOLEAN : RealtimeReply(range, ok)

RealtimeSpec == RealtimeInit /\ [][RealtimeNext]_vars

\* ------------------------------------------------------------ properties
\* c is a call of collectHandler / heartbeatHandler (a request whose body
\* the route refused is no call of a handler)
IsCollect(c) == c.req.kind = "collect" /\ c.status # "invalid"
IsHeartbeat(c) == c.req.kind = "heartbeat" /\ c.status # "invalid"

\* the session a call named existed when the call arrived, belonged to the
\* call's visitor, and had been active within the timeout
SawOpen(r, o) ==
    /\ o.seenExists
    /\ o.seenVisitor = r.visitorId
    /\ o.arrivedAt - o.seenActiveAt <= SessionTimeout

\* ... existed, belonged to the visitor, and had timed out
SawStale(r, o) ==
    /\ o.seenExists
    /\ o.seenVisitor = r.visitorId
    /\ o.arrivedAt - o.seenActiveAt > SessionTimeout

\* the step is a step of the request in slot p
StepOf(p) == pc'[p] # pc[p] \/ req'[p] # req[p]

\* C1: a session that has only received a chain of n successful collect
\* calls (the creating call, then calls that pass its id and its visitor id,
\* one after the other, each arriving within 30 minutes of the call before)
\* has pageViewCount = n and is bounced exactly when n = 1.
ChainCountsPageViews ==
    \A s \in SessionIds :
        (/\ ~hist.sess[s].chainBroken
         /\ \A p \in Procs : ~CollectInFlightOn(p, s))
        => /\ sessions[s].pageViewCount = hist.sess[s].chainCalls
           /\ sessions[s].bounced = (hist.sess[s].chainCalls = 1)

ChainOfThreeSeen ==
    \E s \in SessionIds :
        /\ ~hist.sess[s].chainBroken
        /\ \A p \in Procs : ~CollectInFlightOn(p, s)
        /\ hist.sess[s].chainCalls = 3
        /\ sessions[s].pageViewCount = 3
        /\ ~sessions[s].bounced
        /\ IsCollect(last) /\ last.status = "ok" /\ last.sessionId = s

\* C2: a collect call that passes session S and S's visitor id and arrives
\* more than 30 minutes after S's last-active-at never changes S's row; when
\* it succeeds it has created a new Session row and returns that row's id,
\* which differs from S.
StaleCollectOpensNewSession ==
    /\ [](IsCollect(last) /\ last.status = "ok" /\ SawStale(last.req, last.obs)
            => /\ last.sessionId # last.req.sessionId
               /\ last.sessionId > last.obs.rowsAtArrival
               /\ last.sessionId \in SessionIds
               /\ last.obs.sessWrites =
                      <<[op |-> "create", id |-> last.sessionId]>>)
    /\ [][\A p \in Procs :
            (/\ req[p].kind = "collect"
             /\ SawStale(req[p], obs[p])
             /\ StepOf(p))
            => sessions'[req[p].sessionId] = sessions[req[p].sessionId]]_vars

StaleCollectSeen ==
    /\ IsCollect(last) /\ last.status = "ok"
    /\ SawStale(last.req, last.obs)
    /\ last.sessionId # last.req.sessionId
    /\ Len(sessions) > last.obs.rowsAtArrival

\* C3 (as claimed): once a session has gone more than 30 minutes without
\* any event, with no request on it in progress, no later call changes its
\* pageViewCount or its exitPage.
ClosedSessionStaysClosed ==
    [][\A s \in SessionIds :
          hist.sess[s].closed
          => /\ sessions'[s].pageViewCount = sessions[s].pageViewCount
             /\ sessions'[s].exitPage = sessions[s].exitPage]_vars

\* C4: a collect call updates an existing Session row exactly when the id it
\* passed named a row of its visitor that had been active within the last 30
\* minutes (30 minutes exactly included); every other collect call changes
\* no existing Session row and, when it succeeds, has created a new one.
CollectMutatesIffOpen ==
    /\ [](IsCollect(last) /\ last.status = "ok"
            => IF SawOpen(last.req, last.obs)
               THEN last.obs.sessWrites =
                        <<[op |-> "update", id |-> last.req.sessionId]>>
               ELSE /\ Len(last.obs.sessWrites) = 1
                    /\ last.obs.sessWrites[1].op = "create"
                    /\ last.obs.sessWrites[1].id > last.obs.rowsAtArrival)
    /\ [][\A p \in Procs :
            (/\ req[p].kind = "collect"
             /\ ~SawOpen(req[p], obs[p])
             /\ StepOf(p))
            => \A s \in SessionIds : sessions'[s] = sessions[s]]_vars

\* a call that arrived exactly 30 minutes after the last activity updated
OpenAtBoundarySeen ==
    /\ IsCollect(last) /\ last.status = "ok"
    /\ last.obs.seenExists
    /\ last.obs.seenVisitor = last.req.visitorId
    /\ last.obs.arrivedAt - last.obs.seenActiveAt = SessionTimeout
    /\ last.obs.sessWrites = <<[op |-> "update", id |-> last.req.sessionId]>>

\* C5: a page view whose heartbeats ran one after the other (none read it
\* while another had read it and not yet written) and did not fail stores
\* the maximum of the scroll depths they carried, which is not below what
\* it stored before.
SerialHeartbeatsKeepMax ==
    \A v \in ViewIds :
        (/\ hist.view[v].clean
         /\ \A p \in Procs : ~(pc[p] = "h_write" /\ loc[p].latestView = v))
        => /\ StoredDepth(pageViews[v].scrollDepth) = hist.view[v].fed
           /\ hist.view[v].feeds > 0 => pageViews[v].scrollDepth # NoDepth

\* a heartbeat with a lower depth has left the stored maximum in place
LowerDepthIgnoredSeen ==
    \E v \in ViewIds :
        /\ hist.view[v].clean
        /\ hist.view[v].feeds >= 2
        /\ \A p \in Procs : pc[p] = "idle"
        /\ IsHeartbeat(last) /\ last.status = "ok"
        /\ last.req.sessionId = pageViews[v].sessionId
        /\ last.req.path = pageViews[v].path
        /\ last.req.scrollDepth # NoDepth
        /\ last.req.scrollDepth < pageViews[v].scrollDepth

\* C6 (as claimed): the stored scroll depth of a PageView row never
\* decreases from one store state to the next.
ScrollDepthNeverDecreases ==
    [][\A v \in ViewIds :
          StoredDepth(pageViews'[v].scrollDepth)
              >= StoredDepth(pageViews[v].scrollDepth)]_vars

\* C7: a collect call that found no open session and met no store failure
\* ends ok with a Session row of its own for its visitor, whatever other
\* calls create meanwhile: no two calls share a created row.
RacingCreatesAllSucceed ==
    /\ IsCollect(last) /\ ~last.obs.failed /\ ~SawOpen(last.req, last.obs)
         => /\ last.status = "ok"
            /\ last.sessionId \in SessionIds
            /\ last.sessionId > last.obs.rowsAtArrival
            /\ sessions[last.sessionId].visitorId = last.req.visitorId
    /\ \A p, q \in Procs :
          (p # q /\ loc[p].newSession # NoSession)
          => /\ loc[p].newSession # loc[q].newSession
             /\ loc[p].newSession \in SessionIds
    /\ IsCollect(last) /\ last.status = "ok" /\ ~SawOpen(last.req, last.obs)
         => \A p \in Procs : loc[p].newSession # last.sessionId

\* two sessions of one visitor, both inside the window, the second created
\* by a call that arrived before the first existed
TwoOpenSessionsSeen ==
    \E s1, s2 \in SessionIds :
        /\ s1 < s2
        /\ sessions[s1].visitorId = sessions[s2].visitorId
        /\ sessions[s1].lastActiveAt >= now - SessionTimeout
        /\ sessions[s2].lastActiveAt >= now - SessionTimeout
        /\ hist.sess[s2].bornSeeing < s1
        /\ hist.sess[s1].bornSeeing < s1
        /\ \A p \in Procs : pc[p] = "idle"

\* C8: a session's pageViewCount is its initial value plus the number of
\* collect updates applied to it, in every interleaving.
NoLostIncrement ==
    \A s \in SessionIds :
        sessions[s].pageViewCount =
            DefaultPageViewCount + hist.sess[s].updates

\* a collect call incremented a count that another call had incremented
\* after the first one's lookup
InterleavedIncrementSeen ==
    /\ IsCollect(last) /\ last.status = "ok"
    /\ last.obs.sessWrites = <<[op |-> "update", id |-> last.sessionId]>>
    /\ last.obs.wroteCount = last.obs.seenCount + 2
    /\ sessions[last.sessionId].pageViewCount = last.obs.wroteCount

\* C9: a collect call that ends ok has written exactly one Session row
\* (one create or one update), has inserted exactly one PageView, owned by
\* that session, and has returned that session's id.
CollectWritesOnce ==
    IsCollect(last) /\ last.status = "ok"
    => /\ Len(last.obs.sessWrites) = 1
       /\ Len(last.obs.viewInserts) = 1
       /\ last.obs.viewInserts[1] \in ViewIds
       /\ pageViews[last.obs.viewInserts[1]].sessionId
              = last.obs.sessWrites[1].id
       /\ last.sessionId = last.obs.sessWrites[1].id
       /\ last.sessionId \in SessionIds

CollectRepliedSeen ==
    /\ IsCollect(last) /\ last.status = "ok"
    /\ last.obs.sessWrites[1].op = "update"
    /\ pageViews[last.obs.viewInserts[1]].sessionId = last.sessionId
    /\ Len(pageViews) >= 2

\* C10: a heartbeat whose session id matches no Session row is answered
\* not_found in the step that looks the session up, and that step changes
\* no Session row and no PageView row, whatever depth and path it carries.
UnknownHeartbeatIsNotFound ==
    /\ [](/\ \A p \in Procs :
               req[p].kind = "heartbeat" => obs[p].seenExists
          /\ (IsHeartbeat(last) /\ ~last.obs.seenExists /\ ~last.obs.failed)
               => /\ last.status = "not_found"
                  /\ last.obs.sessWrites = <<>>)
    /\ [][(/\ started'.calls # started.calls
           /\ IsHeartbeat(last')
           /\ ~last'.obs.seenExists)
          => /\ sessions' = sessions
             /\ pageViews' = pageViews]_vars

UnknownHeartbeatSeen ==
    /\ IsHeartbeat(last)
    /\ last.status = "not_found"
    /\ ~last.obs.seenExists
    /\ last.req.scrollDepth # NoDepth
    /\ last.req.path # NoPath
    /\ sessions # <<>>

\* C11: no step of a heartbeat call, whatever its arguments and outcome,
\* changes the number of Session rows or the number of PageView rows.
HeartbeatStepOf(p) ==
    StepOf(p) /\ (req[p].kind = "heartbeat" \/ req'[p].kind = "heartbeat")

HeartbeatAddsNoRows ==
    [][((\E p \in Procs : HeartbeatStepOf(p)) \/ last'.req.kind = "heartbeat")
         => /\ Len(sessions') = Len(sessions)
            /\ Len(pageViews') = Len(pageViews)]_vars

\* a heartbeat carrying a depth and a path that has no view in its session
\* has been answered ok
HeartbeatOnUnviewedPathSeen ==
    /\ IsHeartbeat(last) /\ last.status = "ok"
    /\ last.req.scrollDepth # NoDepth
    /\ last.req.path # NoPath
    /\ last.obs.sessWrites # <<>>
    /\ pageViews # <<>>
    /\ \A v \in ViewIds :
          ~(/\ pageViews[v].sessionId = last.req.sessionId
            /\ pageViews[v].path = last.req.path)

\* C12: the geography and the started-at timestamp of a Session row keep
\* the values written at creation through every later step, and the geo
\* lookup is reached only by a collect call whose lookup found no open
\* session.
GeoAndStartSetOnce ==
    /\ [](\A p \in Procs :
            pc[p] \in {"c_geo", "c_create"}
            => /\ req[p].kind = "collect"
               /\ loc[p].session = NoSession
               /\ ~SawOpen(req[p], obs[p]))
    /\ [][/\ \A s \in SessionIds :
               /\ sessions'[s].geo = sessions[s].geo
               /\ sessions'[s].startedAt = sessions[s].startedAt
           /\ \A p \in Procs :
               (loc'[p].geo # loc[p].geo /\ pc'[p] # "idle")
               => pc[p] = "c_geo"]_vars

\* a session created with a resolved geography at an earlier time has since
\* been updated by a collect call
SessionKeptGeoSeen ==
    /\ IsCollect(last) /\ last.status = "ok"
    /\ last.obs.sessWrites = <<[op |-> "update", id |-> last.sessionId]>>
    /\ sessions[last.sessionId].geo = GeoFound
    /\ sessions[last.sessionId].startedAt < sessions[last.sessionId].lastActiveAt

\* C13 (as claimed): a PageView row that has a newer view of the same
\* session and path is never modified again; a step modifies at most one
\* PageView row.
Superseded(v) ==
    \E w \in ViewIds :
        /\ pageViews[w].sessionId = pageViews[v].sessionId
        /\ pageViews[w].path = pageViews[v].path
        /\ pageViews[w].timestamp > pageViews[v].timestamp

SupersededViewIsFrozen ==
    [][/\ \A v \in ViewIds : Superseded(v) => pageViews'[v] = pageViews[v]
       /\ Cardinality({v \in ViewIds : pageViews'[v] # pageViews[v]}) <= 1]_vars

\* C14: a collect body without visitor id or without path, and a heartbeat
\* body without session id or with a scroll depth outside 0..100, is
\* refused before the handler runs: the call performs no store read or
\* write and no geo lookup, and the store and every request in progress
\* are left as they were.  A handler only ever runs on a body that passed.
BodyPasses(r) ==
    IF r.kind = "collect"
    THEN r.visitorId \in Visitors /\ r.path \in Paths
    ELSE /\ r.sessionId >= 1
         /\ r.scrollDepth \in {NoDepth} \cup (0..100)

InvalidBodyIsRejected ==
    /\ [](/\ \A p \in Procs : pc[p] # "idle" => BodyPasses(req[p])
          /\ last # NoCall
               => /\ last.status = "invalid" <=> ~BodyPasses(last.req)
                  /\ last.status = "invalid" => last.obs = IdleObs)
    /\ [][(last'.status = "invalid")
           => /\ sessions' = sessions /\ pageViews' = pageViews
              /\ pc' = pc /\ req' = req /\ loc' = loc /\ obs' = obs]_vars

\* a heartbeat naming an existing session with too large a scroll depth was
\* refused while a collect call was in progress
RejectedHeartbeatSeen ==
    /\ last.req.kind = "heartbeat" /\ last.status = "invalid"
    /\ last.req.sessionId \in SessionIds
    /\ last.req.scrollDepth > MaxScrollDepth
    /\ \E p \in Procs : pc[p] = "c_create"

\* C15 (as claimed): whatever the geo lookup resolved to, the create step
\* of a collect call that needs a new session adds the Session row and the
\* call goes on to insert its first page view, unless the store itself
\* fails; a collect call never ends in error on account of the geo result.
GeoNeverFailsCollect ==
    [][\A p \in Procs :
         (/\ pc[p] = "c_create"
          /\ StepOf(p)
          /\ started'.failures = started.failures)
         => /\ pc'[p] = "c_first_view"
            /\ Len(sessions') = Len(sessions) + 1
            /\ sessions'[Len(sessions')].geo = loc[p].geo]_vars

\* C16 (as claimed): a collect call that waits for the geo lookup
\* eventually answers its caller, even if the geolocation service never
\* answers.
GeoWaitIsBounded ==
    \A p \in Procs : (pc[p] = "c_geo") ~> (pc[p] = "idle")

\* C17: when the PageView insert of a collect call throws after its Session
\* write, the step changes no row (the updated or created Session row stays
\* as written, no PageView is added), the call ends in error, and no other
\* request in progress is touched.
InsertFails(p) ==
    /\ pc[p] \in {"c_view", "c_first_view"}
    /\ pc'[p] = "idle"
    /\ Len(pageViews') = Len(pageViews)

FailedInsertKeepsSessionWrite ==
    /\ [](IsCollect(last) /\ last.status = "error"
             /\ last.obs.sessWrites # <<>>
          => LET w == last.obs.sessWrites[1]
             IN /\ w.id \in SessionIds
                /\ last.obs.viewInserts = <<>>
                /\ w.op = "update"
                     => /\ sessions[w.id].pageViewCount >= last.obs.wroteCount
                        /\ ~sessions[w.id].bounced
                /\ w.op = "create"
                     => /\ sessions[w.id].visitorId = last.req.visitorId
                        /\ sessions[w.id].entryPage = last.req.path)
    /\ [][\A p \in Procs :
            InsertFails(p)
            => /\ sessions' = sessions
               /\ pageViews' = pageViews
               /\ last'.status = "error"
               /\ last'.obs.sessWrites = obs[p].sessWrites
               /\ \A q \in Procs \ {p} :
                    /\ pc'[q] = pc[q] /\ req'[q] = req[q]
                    /\ loc'[q] = loc[q] /\ obs'[q] = obs[q]]_vars

\* a collect call updated its session and then failed to insert the view:
\* the session counts two page views, the store holds one
SessionAheadOfViewsSeen ==
    /\ IsCollect(last) /\ last.status = "error"
    /\ last.obs.sessWrites = <<[op |-> "update", id |-> last.req.sessionId]>>
    /\ sessions[last.req.sessionId].pageViewCount = 2
    /\ sessions[last.req.sessionId].exitPage = last.req.path
    /\ ~sessions[last.req.sessionId].bounced
    /\ Len(pageViews) = 1
    /\ \E q \in Procs : pc[q] # "idle"

\* C19: the percentage change of (current, previous) is 100 when previous
\* is 0 and current is positive, 0 when previous is 0 and current is not
\* positive, and otherwise (current - previous) / previous * 100 rounded to
\* one decimal: it is a number of tenths within half a tenth of the exact
\* ratio.  (0, 0) gives 0, (5, 0) gives 100 and (50, 100) gives -50.0.
PctChangeIsRoundedRatio ==
    (agg.pc = "pct" /\ agg.done)
    => LET c == agg.curr
           p == agg.prev
           r == agg.out
       IN /\ (p = 0 /\ c > 0) => r = 1000
          /\ (p = 0 /\ c <= 0) => r = 0
          /\ p # 0 => 2 * Abs(r * p - 1000 * (c - p)) <= Abs(p)
          /\ (c = 0 /\ p = 0) => r = 0
          /\ (c = 5 /\ p = 0) => r = 1000
          /\ (c = 50 /\ p = 100) => r = 0 - 500

\* the change from 3 to 1 has been computed: -66.7
PctRoundedSeen ==
    /\ agg.pc = "pct" /\ agg.done
    /\ agg.curr = 1 /\ agg.prev = 3
    /\ agg.out = 0 - 667

\* C18 (as claimed): the figures a summary-stats reply is computed from
\* (sessions, page-view total, previous-period sessions and page views) are
\* all the figures of one store state that existed during the request.
FiguresAt(x) ==
    [q \in Queries |->
        IF q \in {"sessions", "pageViews"} \/ ReadsPrevious(agg.range)
        THEN QueryResult(q, x.sessions, x.pageViews, agg.range, agg.at)
        ELSE IF q = "prevSessions" THEN <<>> ELSE 0]

StatsReadOneSnapshot ==
    (agg.pc = "done" /\ agg.status = "success")
    => \E x \in agg.snaps : agg.got = FiguresAt(x)

\* C20: for range "all" the summary view issues no query for a preceding
\* period: the previous sessions are the empty list and the previous page
\* views are 0 whatever the store holds, and every reported change is the
\* change from 0 (100 for a positive figure, 0 otherwise).
FromZero(figure) == IF figure > 0 THEN 1000 ELSE 0

AllRangeHasNoPreviousPeriod ==
    (agg.pc \in {"reading", "done"} /\ agg.range = "all")
    => /\ (agg.pending \cup agg.reads)
              \cap {"prevSessions", "prevPageViews"} = {}
       /\ agg.got["prevSessions"] = <<>>
       /\ agg.got["prevPageViews"] = 0
       /\ agg.status = "success"
            => /\ agg.data.visitorsChange = FromZero(agg.data.visitors)
               /\ agg.data.sessionsChange = FromZero(agg.data.sessions)
               /\ agg.data.pageViewsChange = FromZero(agg.data.pageViews)
               /\ agg.data.avgDurationChange = FromZero(agg.data.avgDuration)
               /\ agg.data.bounceRateChange = FromZero(agg.data.bounceRate)

\* a reply for range "all" over a store that holds rows of last week and
\* rows of today
AllRangeReplySeen ==
    /\ agg.pc = "done" /\ agg.status = "success"
    /\ agg.range = "all"
    /\ agg.data.sessions >= 2
    /\ agg.data.sessionsChange = 1000
    /\ agg.data.pageViews >= 2
    /\ \E s \in SessionIds : sessions[s].startedAt < now - 7 * MinutesPerDay
    /\ \E s \in SessionIds : sessions[s].startedAt = now

\* C26: the step of a heartbeat that applies its session update sets the
\* duration to the whole seconds between started-at and the clock and
\* last-active-at to the clock; a stored duration is never negative and no
\* step lowers it.
HeartbeatSetsDuration ==
    /\ [](\A s \in SessionIds : sessions[s].duration >= 0)
    /\ [][\A p \in Procs :
            (/\ pc[p] = "h_update"
             /\ pc'[p] = "h_find" \/ (StepOf(p) /\ last'.status = "ok"))
            => LET s == req[p].sessionId
               IN /\ sessions'[s].duration =
                        (now - sessions[s].startedAt) * SecondsPerMinute
                  /\ sessions'[s].lastActiveAt = now
                  /\ \A x \in SessionIds :
                        sessions'[x].duration >= sessions[x].duration]_vars

\* a second heartbeat, half an hour after the session began, has stored
\* 1800 seconds
HeartbeatLengthensDurationSeen ==
    /\ IsHeartbeat(last) /\ last.status = "ok"
    /\ last.req.sessionId \in SessionIds
    /\ sessions[last.req.sessionId].startedAt = 0
    /\ sessions[last.req.sessionId].duration = 30 * SecondsPerMinute
    /\ sessions[last.req.sessionId].lastActiveAt = now
    /\ now = 30

\* C27: while no collect call is in progress and no store call has thrown,
\* every session's pageViewCount is the number of PageView rows it owns,
\* and that number is at least one.
OwnedViews(s) == {v \in ViewIds : pageViews[v].sessionId = s}

CountMatchesOwnedViews ==
    (/\ \A p \in Procs : ~(pc[p] # "idle" /\ req[p].kind = "collect")
     /\ started.failures = 0)
    => \A s \in SessionIds :
          /\ sessions[s].pageViewCount = Cardinality(OwnedViews(s))
          /\ Cardinality(OwnedViews(s)) >= 1

\* a collect call has just ended with two sessions in the store, one of
\* them with two page views
TwoSessionsCountedSeen ==
    /\ \A p \in Procs : ~(pc[p] # "idle" /\ req[p].kind = "collect")
    /\ started.failures = 0
    /\ Len(sessions) >= 2
    /\ \E s \in SessionIds : /\ sessions[s].pageViewCount = 2
                             /\ Cardinality(OwnedViews(s)) = 2
    /\ IsCollect(last) /\ last.status = "ok"

\* C29: a heartbeat step leaves pageViewCount, bounced, entry page, exit
\* page and visitor id of every session as they were, whatever path the
\* heartbeat carries; the session update of a collect call leaves duration,
\* entry page, referrer, referrer domain, UTM source and device type as
\* they were and sets the exit page to the path of the call.
HandlersKeepOtherFields ==
    [][\A p \in Procs :
         /\ HeartbeatStepOf(p)
              => \A s \in SessionIds :
                    /\ sessions'[s].pageViewCount = sessions[s].pageViewCount
                    /\ sessions'[s].bounced = sessions[s].bounced
                    /\ sessions'[s].entryPage = sessions[s].entryPage
                    /\ sessions'[s].exitPage = sessions[s].exitPage
                    /\ sessions'[s].visitorId = sessions[s].visitorId
         /\ (pc[p] = "c_update" /\ pc'[p] = "c_view")
              => LET s == loc[p].session
                 IN /\ sessions'[s].duration = sessions[s].duration
                    /\ sessions'[s].entryPage = sessions[s].entryPage
                    /\ sessions'[s].referrer = sessions[s].referrer
                    /\ sessions'[s].referrerDomain = sessions[s].referrerDomain
                    /\ sessions'[s].utmSource = sessions[s].utmSource
                    /\ sessions'[s].deviceType = sessions[s].deviceType
                    /\ sessions'[s].exitPage = req[p].path]_vars

\* a session entered on /a from a search result has taken a page view of
\* /b sent with other metadata, and then a heartbeat for /a
HeartbeatOffExitPageSeen ==
    /\ IsHeartbeat(last) /\ last.status = "ok"
    /\ last.req.path = "/a"
    /\ last.req.sessionId \in SessionIds
    /\ LET row == sessions[last.req.sessionId]
       IN /\ row.entryPage = "/a"
          /\ row.exitPage = "/b"
          /\ row.pageViewCount = 2
          /\ ~row.bounced
          /\ row.utmSource = NoUtm
          /\ row.referrerDomain # NoDomain
          /\ row.deviceType = "desktop"
          /\ MetaSent(row.exitPage).deviceType = "mobile"

\* C28: when a heartbeat on session S has ended ok at time t, a collect
\* call that passes S's id and S's visitor id and arrives no later than
\* t + 30 minutes finds S open, however long ago the last collect on S was;
\* the call then increments S's pageViewCount and returns S's id.
HeartbeatExtendsWindow ==
    /\ [](IsCollect(last) /\ last.status = "ok"
            /\ last.obs.sessWrites[1].op = "update"
          => /\ last.sessionId = last.req.sessionId
             /\ last.obs.sessWrites[1].id = last.req.sessionId)
    /\ [][\A p \in Procs :
            /\ (/\ pc[p] = "idle" /\ pc'[p] # "idle"
                /\ req'[p].kind = "collect"
                /\ req'[p].sessionId \in SessionIds
                /\ sessions[req'[p].sessionId].visitorId = req'[p].visitorId
                /\ hist.sess[req'[p].sessionId].beatAt # NoTime
                /\ now <= hist.sess[req'[p].sessionId].beatAt + 30)
               => /\ pc'[p] = "c_update"
                  /\ loc'[p].session = req'[p].sessionId
            /\ (pc[p] = "c_update" /\ pc'[p] = "c_view")
               => sessions'[loc[p].session].pageViewCount =
                      sessions[loc[p].session].pageViewCount + 1]_vars

\* a collect call arriving 31 minutes after the only earlier page view of
\* its session and exactly 30 minutes after a heartbeat on it has ended ok
\* on that session
CollectAfterHeartbeatSeen ==
    /\ IsCollect(last) /\ last.status = "ok"
    /\ last.sessionId = last.req.sessionId
    /\ last.obs.sessWrites = <<[op |-> "update", id |-> last.sessionId]>>
    /\ hist.sess[last.sessionId].beatAt = last.obs.arrivedAt - 30
    /\ sessions[last.sessionId].pageViewCount = 2
    /\ \E v \in ViewIds :
          /\ pageViews[v].sessionId = last.sessionId
          /\ pageViews[v].timestamp = last.obs.arrivedAt - 31

\* C30 (as claimed): in every store state the last-active-at of a session
\* is at or after its started-at, and no step moves it backwards, whatever
\* the interleaving of the collect and heartbeat calls on the session.
LastActiveNeverBackwards ==
    /\ [](\A s \in SessionIds :
            sessions[s].lastActiveAt >= sessions[s].startedAt)
    /\ [][\A s \in SessionIds :
            sessions'[s].lastActiveAt >= sessions[s].lastActiveAt]_vars

\* C24 (as claimed): a session with a UTM source gets the category its UTM
\* source gives with any referrer domain, and the UTM source
\* "facebook_ads" gives "Social Media".
FacebookAds == <<"f", "a", "c", "e", "b", "o", "o", "k", "_", "a", "d", "s">>

UtmSourceDecidesCategory ==
    (agg.pc = "done" /\ agg.view = "referrers" /\ agg.status = "success")
    => \A i \in 1..Len(agg.read) :
          agg.read[i].utmSource # NoUtm
          => /\ \A r \in ReferrerInputs :
                   agg.assigned[i] =
                       categorizeTrafficSource(extractReferrerDomain(r),
                                               agg.read[i].utmSource)
             /\ agg.read[i].utmSource = FacebookAds
                   => agg.assigned[i] = "Social Media"

\* C25: every session the referrers view reads is given one of the seven
\* categories; without a UTM source it is Direct exactly when it has no
\* referrer domain and otherwise Organic Search, Social Media or Referral;
\* the view lists each category once, with the number of sessions given it,
\* and these numbers add up to the number of sessions in the range.
InRange(range) == {x \in SessionIds : sessions[x].startedAt >= Since(range, now)}

SourcesPartitionSessions ==
    (agg.pc = "done" /\ agg.view = "referrers" /\ agg.status = "success")
    => LET list == agg.data.sources
       IN /\ Len(agg.read) = Cardinality(InRange(agg.range))
          /\ \A i \in 1..Len(agg.read) :
                /\ agg.assigned[i] \in Categories
                /\ agg.read[i].utmSource = NoUtm
                     => /\ agg.assigned[i] = "Direct"
                            <=> agg.read[i].referrerDomain = NoDomain
                        /\ agg.assigned[i] \in
                              {"Direct", "Organic Search", "Social Media",
                               "Referral"}
          /\ \A k, m \in 1..Len(list) : list[k].name = list[m].name => k = m
          /\ \A k \in 1..Len(list) :
                list[k].sessions =
                    Cardinality({i \in 1..Len(agg.read) :
                                    agg.assigned[i] = list[k].name})
          /\ SeqSum([k \in 1..Len(list) |-> list[k].sessions])
                = Cardinality(InRange(agg.range))

\* the view for the last seven days over a store with a session of eight
\* days ago and a direct session of today
DirectSessionCountedSeen ==
    /\ agg.pc = "done" /\ agg.view = "referrers" /\ agg.status = "success"
    /\ agg.range = "7d"
    /\ Len(sessions) = 2
    /\ Len(agg.read) = 1
    /\ agg.read[1].utmSource = NoUtm
    /\ agg.read[1].referrer = BadReferrer
    /\ agg.data.sources = <<[name |-> "Direct", sessions |-> 1,
                             visitors |-> 1, percentage |-> 1000]>>

\* the moment a bucket key names
KeyTime(key) == EpochTime + key.day * MinutesPerDay + key.hour * MinutesPerHour

HourStart(t) == t - ((t - EpochTime) % MinutesPerHour)

RECURSIVE SeriesViews(_)
SeriesViews(series) ==
    IF series = <<>> THEN 0
    ELSE series[1].views + SeriesViews(Tail(series))

\* C21: the time series for range = today has one bucket per hour holding
\* a page view of today: a bucket counts the page views whose timestamp
\* truncated to the hour is the bucket's time, and the distinct session ids
\* among them; the buckets are in ascending time order, none is empty, and
\* their view counts add up to the number of page views of today.
HourlyBuckets ==
    (agg.pc = "done" /\ agg.view = "time-series" /\ agg.range = "today"
       /\ agg.status = "success")
    => LET today == {i \in 1..Len(pageViews) :
                        pageViews[i].timestamp >= DayStart(agg.at)}
           series == agg.data.series
           In(n) == {i \in today : HourStart(pageViews[i].timestamp)
                                      = KeyTime(series[n].time)}
       IN /\ agg.data.granularity = "hour"
          /\ \A n \in 1..Len(series) :
                /\ series[n].views = Cardinality(In(n))
                /\ series[n].views >= 1
                /\ series[n].visitors
                     = Cardinality({pageViews[i].sessionId : i \in In(n)})
          /\ \A i \in today : \E n \in 1..Len(series) : i \in In(n)
          /\ \A m, n \in 1..Len(series) :
                m < n => KeyTime(series[m].time) < KeyTime(series[n].time)
          /\ SeriesViews(series) = Cardinality(today)

\* page views at 10:05, 10:55 and 11:02 have come out as the bucket of
\* 10:00 with 2 views and the bucket of 11:00 with 1
TwoHourlyBucketsSeen ==
    /\ agg.pc = "done" /\ agg.view = "time-series" /\ agg.range = "today"
    /\ agg.status = "success"
    /\ Len(pageViews) = 3
    /\ pageViews[1].timestamp = 10 * MinutesPerHour + 5
    /\ pageViews[2].timestamp = 10 * MinutesPerHour + 55
    /\ pageViews[3].timestamp = 11 * MinutesPerHour + 2
    /\ Len(agg.data.series) = 2
    /\ KeyTime(agg.data.series[1].time) = 10 * MinutesPerHour
    /\ agg.data.series[1].views = 2
    /\ KeyTime(agg.data.series[2].time) = 11 * MinutesPerHour
    /\ agg.data.series[2].views = 1

\* the page views in the range of the last view call
ViewsInRange ==
    {i \in 1..Len(pageViews) :
        pageViews[i].timestamp >= Since(agg.range, agg.at)}

\* the sessions with a page view of the path in that range
SessionsOnPath(path) ==
    {pageViews[i].sessionId : i \in {j \in ViewsInRange :
                                       pageViews[j].path = path}}

\* those of them with exactly one page view in the range, on any path
SingleViewSessions(path) ==
    {x \in SessionsOnPath(path) :
        Cardinality({i \in ViewsInRange : pageViews[i].sessionId = x}) = 1}

\* C22: in the top-pages view the bounce rate of a path is the share, in
\* whole percent, of the sessions with a page view of the path in the range
\* that have exactly one page view in the range over all paths; the bounced
\* flag of the Session rows has no part in it.
PathBounceFromViews ==
    (agg.pc = "done" /\ agg.view = "top-pages" /\ agg.status = "success")
    => \A n \in 1..Len(agg.data.pages) :
          LET e == agg.data.pages[n]
          IN /\ SessionsOnPath(e.path) # {}
             /\ e.bounceRate
                  = Round(Cardinality(SingleViewSessions(e.path)) * Percent,
                          Cardinality(SessionsOnPath(e.path)))

\* all the page views of today are on one path; one of its two sessions
\* began the day before and has a single page view today, so the path has
\* bounce rate 50 though its bounced flag is false, while the only session
\* begun today has two page views and the summary's bounce rate for today
\* is 0
BounceRatesDifferSeen ==
    /\ agg.pc = "done" /\ agg.view = "top-pages" /\ agg.status = "success"
    /\ agg.range = "today"
    /\ Len(agg.data.pages) = 1
    /\ agg.data.pages[1].bounceRate = 50
    /\ \E x \in SingleViewSessions(agg.data.pages[1].path) :
          ~sessions[x].bounced
    /\ Len(SessionsSince(sessions, Since(agg.range, agg.at))) = 1
    /\ BounceRate(SessionsSince(sessions, Since(agg.range, agg.at))) = 0

RECURSIVE PageCounts(_)
PageCounts(pages) ==
    IF pages = <<>> THEN 0
    ELSE pages[1].count + PageCounts(Tail(pages))

\* the sessions last active at or after five minutes before the realtime
\* view was asked for (the clock counts seconds)
ActiveNow ==
    {i \in 1..Len(sessions) :
        sessions[i].lastActiveAt >= agg.at - 5 * SecondsPerMinute}

\* C23: whatever range is passed, the realtime view counts exactly the
\* sessions whose lastActiveAt is at or after now minus 5 minutes, each
\* under its exit page, so one last active 4 min 59 s ago is counted and
\* one last active 5 min 1 s ago is not; with at most 10 active exit pages
\* the per-page counts add up to the active-session count.
RealtimeCountsActive ==
    (agg.pc = "done" /\ agg.view = "realtime" /\ agg.status = "success")
    => LET pages == agg.data.activePages
           exits == {sessions[i].exitPage : i \in ActiveNow}
       IN /\ agg.data.activeSessions = Cardinality(ActiveNow)
          /\ \A n \in 1..Len(pages) :
                pages[n].count
                  = Cardinality({i \in ActiveNow :
                                    sessions[i].exitPage = pages[n].page})
          /\ Cardinality(exits) <= 10
                => /\ {pages[n].page : n \in 1..Len(pages)} = exits
                   /\ PageCounts(pages) = agg.data.activeSessions

\* a realtime view asked for with range = today has counted two sessions,
\* last active 4 min 59 s and exactly 5 min before, and has left out one
\* last active 5 min 1 s before
RealtimeBoundarySeen ==
    /\ agg.pc = "done" /\ agg.view = "realtime" /\ agg.status = "success"
    /\ agg.range = "today"
    /\ agg.data.activeSessions = 2
    /\ PageCounts(agg.data.activePages) = 2
    /\ \E i, j, k \in 1..Len(sessions) :
          /\ sessions[i].lastActiveAt = agg.at - 301
          /\ sessions[j].lastActiveAt = agg.at - 300
          /\ sessions[k].lastActiveAt = agg.at - 299
====
